---- MODULE Spec2Model ----
(***************************************************************************)
(* ChuoCheck session verification engine.                                  *)
(*                                                                         *)
(* The durable store (attendance_sessions, session_checks,                 *)
(* session_check_responses, the activity log), the lecturer's              *)
(* ActiveSession view (src/src/components/DigitalIDCard.tsx), the          *)
(* students' LiveClass views (src/unnamed/part_001), the realtime feed     *)
(* between them and the wall clock.  Time is in milliseconds, as           *)
(* Date.getTime() returns it.  One session is studied: every component is  *)
(* parameterised by a single sessionId.                                    *)
(***************************************************************************)
EXTENDS Integers, Sequences, FiniteSets, Bags, TLC

VARIABLES
    now,                  \* wall clock, ms (new Date().getTime(), the store's now())
    attendance_sessions,  \* the store's row of the session
    activity_logs,        \* number of 'session_ended' rows written by logActivity
    terminated,           \* history: an explicit "End Session" update has committed
    sessionEvents,        \* per student client: attendance_sessions UPDATE events in flight
    lecturer,             \* state of the lecturer's ActiveSession view
    endCalls,             \* bag of the endSession() invocations in flight
    clicks,               \* presses of the "End Session" button so far
    mounts,               \* number of times the ActiveSession view was mounted
    notifications,        \* history: calls of notifySessionActive for the session
    presses,              \* presses of "Yes, I'm Here!" that are counted
    session_checks,       \* the store's session_checks rows of the session
    session_check_responses, \* the store's session_check_responses rows
    conflicts,            \* history: (check, student) inserts the store refused
    writes,               \* history: inserts the store decided, with auth.uid()
    triggers,             \* triggerPresenceCheck() invocations in flight
    checkEvents,          \* per student client: session_checks INSERT events in flight
    responseEvents,       \* session_check_responses INSERT events in flight to the lecturer
    students,             \* per student client: state of its LiveClass view
    attendance_records,   \* the store's attendance_records rows of the session
    scans,                \* per student client: the scan submission in flight
    outcomes,             \* per student client: what its submissions signalled
    attendanceEvents,     \* attendance_records INSERT events in flight to the lecturer
    session_sentiments,   \* the store's session_sentiments rows of the session
    sentimentEvents,      \* session_sentiments INSERT events in flight to the lecturer
    profileLookups,       \* bag: attendance handlers awaiting the student's profile
    folds,                \* history, bag: handler runs of the view per record identity
    redeliveries          \* history: events the feed has delivered a second time

sessionStore == <<attendance_sessions, activity_logs, terminated, sessionEvents>>
mountVars == <<mounts, notifications, presses>>
sessionVars == <<endCalls, clicks, mountVars>>
checkStore == <<session_checks, session_check_responses, conflicts, writes>>
checkVars == <<triggers, checkEvents, responseEvents, students>>

scanVars == <<attendance_records, scans, outcomes>>
feedStore == <<session_sentiments, redeliveries>>
feeds == <<attendanceEvents, sentimentEvents, profileLookups, folds>>
feedVars == <<feedStore, feeds>>

vars == <<now, sessionStore, lecturer, sessionVars, checkStore, checkVars,
          scanVars, feedVars>>

----------------------------------------------------------------------------
(* Bounds of the model *)

ClockStepMs == 500        \* granularity of the modelled wall clock
MaxClockSteps == 9        \* the clock stops after this many steps
SessionEndSteps == 5      \* the session's end_time, in clock steps
MaxEndClicks == 2         \* presses of the "End Session" button
MaxMounts == 2            \* mounts of the ActiveSession view

EarlySteps == 0           \* presence checks: the clock is observed for this many
                          \* steps after the start,
LateSteps == 119          \* and again from this step on,
HorizonSteps == 122       \* up to this step
LeaveStartSteps == 116    \* leaving during a check: the clock starts at this step
MaxChecks == 1            \* presence checks triggered
MaxScans == 3             \* scan submissions, on all devices
MaxSentiments == 1        \* session_sentiments rows emitted
MaxRedeliveries == 1      \* events the feed delivers twice
FeedClockSteps == 1       \* the live feed: the clock is observed for this many steps
MaxConfirms == 2          \* counted presses of "Yes, I'm Here!"
MaxOutages == 1           \* losses of the lecturer's realtime socket

(* Program constants *)

TickMs == 1000            \* setInterval(..., 1000)
durationSeconds == 60     \* triggerPresenceCheck: const durationSeconds = 60
DefaultRecheckRadius == 150  \* confirmPresence: geofence_radius_meters || 150
ResetDelayMs == 3000      \* confirmPresence: setTimeout(..., 3000)
DefaultRadius == 100      \* Location Verification: Optional GPS validation (100m radius)

----------------------------------------------------------------------------
(* Helpers *)

Null == <<>>
Some(x) == <<x>>
Max(a, b) == IF a >= b THEN a ELSE b

\* (a countdown that forgets the clamp at zero)
RemainingUnclamped(end, t) == (end - t) \div 1000

\* Math.max(0, Math.floor((end - now) / 1000))
Remaining(end, t) == Max(0, (end - t) \div 1000)

\* setInterval: the next nominal firing time after `t` of an interval whose
\* callback was due at `due` <= t: callbacks that came due while the tab was
\* suspended are dropped, they do not pile up.
NextDue(due, t) == due + (((t - due) \div TickMs) + 1) * TickMs

----------------------------------------------------------------------------
(* The lecturer's ActiveSession view *)

SentimentKinds == {"understood", "neutral", "confused"}

\* useState({ understood: 0, neutral: 0, confused: 0 })
NoSentiments == [k \in SentimentKinds |-> 0]

\* useState initial values; pc is the position of fetchSession, fetched what
\* fetchAttendees has selected, sentPc and sentFetched those of fetchSentiments;
\* online is the state of the view's realtime socket, outages counts the
\* times it was lost and regained
InitialView ==
    [mounted |-> FALSE, pc |-> "idle", session |-> Null, loading |-> TRUE,
     timeLeft |-> 0, ticked |-> FALSE, timerDue |-> 0,
     activeCheckId |-> 0, checkTimeLeft |-> 0, verifiedCount |-> 0,
     joined |-> FALSE, checkTimerDue |-> 0,
     attendees |-> <<>>, fetched |-> <<>>,
     sentiments |-> NoSentiments, sentPc |-> "idle", sentFetched |-> NoSentiments,
     online |-> TRUE, outages |-> 0]

\* The route is entered: state is initialised, the mount effects call
\* fetchSession() and fetchSentiments() and subscribe to sentiment-changes.
LecturerMount ==
    /\ ~lecturer.mounted
    /\ mounts < MaxMounts
    /\ mounts' = mounts + 1
    /\ lecturer' = [InitialView EXCEPT !.mounted = TRUE, !.pc = "fetchSession",
                                       !.sentPc = "query"]
    /\ UNCHANGED <<now, sessionStore, endCalls, clicks, notifications, presses,
                   checkStore, checkVars,
                   scanVars, feedVars>>

\* fetchSession: the select resolves; setSession(data) starts the countdown
\* interval and the attendance-changes subscription (effects on [session]);
\* the QR code is generated, notifySessionActive(course, duration_minutes)
\* is called and fetchAttendees is called next.
FetchSessionDone ==
    /\ lecturer.mounted
    /\ lecturer.pc = "fetchSession"
    /\ lecturer' = [lecturer EXCEPT !.pc = "fetchAttendees",
                                    !.session = Some(attendance_sessions),
                                    !.timerDue = now + TickMs]
    /\ notifications' = notifications + 1
    /\ UNCHANGED <<now, sessionStore, endCalls, clicks, mounts, presses, checkStore,
                   checkVars, scanVars, feedVars>>

\* What the feed shows of a record: id, scanned_at, student_id (and profile)
Attendee(row) ==
    [id |-> row.id, scanned_at |-> row.scanned_at, student_id |-> row.student_id]

\* .order('scanned_at', { ascending: false }): the sequences the select may
\* return (records of equal scanned_at come in either order)
NewestFirst(rows) ==
    {q \in [1..Cardinality(rows) -> rows] :
        /\ \A i, j \in DOMAIN q : i # j => q[i] # q[j]
        /\ \A i, j \in DOMAIN q : i < j => q[i].scanned_at >= q[j].scanned_at}

\* fetchAttendees: the select on attendance_records resolves; the profiles
\* are fetched next.
FetchAttendeesQuery ==
    /\ lecturer.mounted
    /\ lecturer.pc = "fetchAttendees"
    /\ \E q \in NewestFirst({Attendee(r) : r \in attendance_records}) :
          lecturer' = [lecturer EXCEPT !.pc = "enrich", !.fetched = q]
    /\ UNCHANGED <<now, sessionStore, sessionVars, checkStore, checkVars,
                   scanVars, feedVars>>

\* fetchAttendees: setAttendees(enrichedData); fetchSession: setLoading(false).
FetchAttendeesSet ==
    /\ lecturer.mounted
    /\ lecturer.pc = "enrich"
    /\ lecturer' = [lecturer EXCEPT !.pc = "idle",
                                    !.attendees = lecturer.fetched,
                                    !.fetched = <<>>,
                                    !.loading = FALSE]
    /\ UNCHANGED <<now, sessionStore, sessionVars, checkStore, checkVars,
                   scanVars, feedVars>>

\* fetchAttendees: the select fails; console.error, the feed is left as it
\* is; fetchSession: setLoading(false).
FetchAttendeesError ==
    /\ lecturer.mounted
    /\ lecturer.pc = "fetchAttendees"
    /\ lecturer' = [lecturer EXCEPT !.pc = "idle", !.loading = FALSE]
    /\ UNCHANGED <<now, sessionStore, sessionVars, checkStore, checkVars,
                   scanVars, feedVars>>

\* The view is unmounted: state is discarded and the effects' cleanups run
\* (clearInterval, supabase.removeChannel: events in flight are not delivered).
LecturerTeardown ==
    /\ lecturer' = InitialView
    /\ responseEvents' = {}
    /\ attendanceEvents' = {}
    /\ sentimentEvents' = {}
    /\ profileLookups' = EmptyBag
    /\ folds' = EmptyBag

\* fetchSession: the select fails; toast and navigate('/lecturer/classes').
FetchSessionFail ==
    /\ lecturer.mounted
    /\ lecturer.pc = "fetchSession"
    /\ LecturerTeardown
    /\ UNCHANGED <<now, sessionStore, sessionVars, checkStore, triggers,
                   checkEvents, students, scanVars,
                   feedStore>>

StudentClients == {"d1", "d2"}     \* devices showing a LiveClass view
StudentUsers == {"s1", "s2"}       \* auth.uid() of the students

\* A new endSession() invocation; onEnded and explicit are history fields.
NewEndCall(explicit) ==
    [stage |-> "update",
     onEnded |-> ~attendance_sessions.is_active, explicit |-> explicit]

\* (a countdown that calls endSession only on the tick at which the remaining
\* time first shows 0)
SessionTickOnce ==
    /\ lecturer.mounted
    /\ lecturer.session # Null
    /\ now >= lecturer.timerDue
    /\ LET s == lecturer.session[1]
           remaining == Remaining(s.end_time, now)
       IN  /\ lecturer' = [lecturer EXCEPT
                              !.timeLeft = remaining,
                              !.ticked = TRUE,
                              !.timerDue = NextDue(lecturer.timerDue, now)]
           /\ IF remaining = 0 /\ s.is_active
                    /\ (lecturer.timeLeft # 0 \/ ~lecturer.ticked)
                 THEN endCalls' = endCalls (+) SetToBag({NewEndCall(FALSE)})
                 ELSE UNCHANGED endCalls
    /\ UNCHANGED <<now, sessionStore, clicks, mountVars, checkStore, checkVars,
                   scanVars, feedVars>>

\* The countdown interval's callback.
SessionTick ==
    /\ lecturer.mounted
    /\ lecturer.session # Null
    /\ now >= lecturer.timerDue
    /\ LET s == lecturer.session[1]
           remaining == Remaining(s.end_time, now)
       IN  /\ lecturer' = [lecturer EXCEPT
                              !.timeLeft = remaining,
                              !.ticked = TRUE,
                              !.timerDue = NextDue(lecturer.timerDue, now)]
           /\ IF remaining = 0 /\ s.is_active
                 THEN endCalls' = endCalls (+) SetToBag({NewEndCall(FALSE)})
                 ELSE UNCHANGED endCalls
    /\ UNCHANGED <<now, sessionStore, clicks, mountVars, checkStore, checkVars,
                   scanVars, feedVars>>

\* The "End Session" button: onClick={endSession}.
EndSessionClick ==
    /\ lecturer.mounted
    /\ ~lecturer.loading
    /\ clicks < MaxEndClicks
    /\ endCalls' = endCalls (+) SetToBag({NewEndCall(TRUE)})
    /\ clicks' = clicks + 1
    /\ UNCHANGED <<now, sessionStore, lecturer, mountVars, checkStore, checkVars,
                   scanVars, feedVars>>

\* (an update that toggles the flag instead of clearing it)
EndSessionToggle(row) == [row EXCEPT !.is_active = ~row.is_active]

\* (an update that also moves end_time to the moment of ending)
EndSessionWriteStamped(row) ==
    [row EXCEPT !.is_active = FALSE, !.end_time = now]

\* .update({ is_active: false }).eq('id', sessionId)
EndSessionWrite(row) == [row EXCEPT !.is_active = FALSE]

\* endSession: the store commits the update and publishes the UPDATE, with
\* the new row, to the student clients whose session-<id> channel is joined.
EndSessionUpdate ==
    \E c \in BagToSet(endCalls) :
        /\ c.stage = "update"
        /\ attendance_sessions' = EndSessionWrite(attendance_sessions)
        /\ sessionEvents' =
              [d \in StudentClients |->
                  IF students[d].subscribed
                     THEN sessionEvents[d] \cup
                             {[new |-> EndSessionWrite(attendance_sessions)]}
                     ELSE sessionEvents[d]]
        /\ terminated' = (terminated \/ c.explicit)
        /\ endCalls' = (endCalls (-) SetToBag({c}))
                          (+) SetToBag({[c EXCEPT !.stage = "log"]})
        /\ UNCHANGED <<now, activity_logs, lecturer, clicks, mountVars, checkStore,
                       checkVars, scanVars, feedVars>>

\* endSession: the update returns an error; toast, nothing else.
EndSessionError ==
    \E c \in BagToSet(endCalls) :
        /\ c.stage = "update"
        /\ endCalls' = endCalls (-) SetToBag({c})
        /\ UNCHANGED <<now, sessionStore, lecturer, clicks, mountVars, checkStore,
                       checkVars, scanVars, feedVars>>

\* endSession: logActivity(..., 'session_ended', ...), toast, navigate.
EndSessionFinish ==
    \E c \in BagToSet(endCalls) :
        /\ c.stage = "log"
        /\ activity_logs' = activity_logs + 1
        /\ endCalls' = endCalls (-) SetToBag({c})
        /\ LecturerTeardown
        /\ UNCHANGED <<now, attendance_sessions, terminated, sessionEvents,
                       clicks, mountVars,
                       checkStore, triggers, checkEvents, students, scanVars,
                   feedStore>>

\* The lecturer leaves the page (Dashboard / Manage / sign out).
LecturerLeave ==
    /\ lecturer.mounted
    /\ LecturerTeardown
    /\ UNCHANGED <<now, sessionStore, sessionVars, checkStore, triggers,
                   checkEvents, students, scanVars,
                   feedStore>>

\* Wall-clock time passes.
AdvanceTime ==
    /\ now + ClockStepMs <= MaxClockSteps * ClockStepMs
    /\ now' = now + ClockStepMs
    /\ UNCHANGED <<sessionStore, lecturer, sessionVars, checkStore, checkVars,
                   scanVars, feedVars>>

----------------------------------------------------------------------------
(* Presence checks: the lecturer's side *)

CheckRow(id) == CHOOSE c \in session_checks : c.id = id

\* The "Start Random Check" button, shown while activeCheckId is null:
\* expiresAt = Date.now() + 60 s, then the insert is sent.
TriggerPress(limit) ==
    /\ lecturer.mounted
    /\ ~lecturer.loading
    /\ lecturer.activeCheckId = 0
    /\ Cardinality(session_checks) + Cardinality(triggers) < limit
    /\ triggers' = triggers \cup
          {[stage |-> "insert", expires_at |-> now + durationSeconds * 1000,
            id |-> 0, seq |-> Cardinality(session_checks) + Cardinality(triggers)]}
    /\ UNCHANGED <<now, sessionStore, lecturer, sessionVars, checkStore,
                   checkEvents, responseEvents, students, scanVars, feedVars>>

\* The "Trigger Random Check" button, pressed MaxChecks times at most.
TriggerPresenceCheck == TriggerPress(MaxChecks)

\* The same button when it may be pressed once more: it stays on the card,
\* enabled, until an insert has returned and activeCheckId is set.
TriggerPresenceCheckAgain == TriggerPress(MaxChecks + 1)

\* The user of the ActiveSession view: fetchSession selects the session with
\* .eq('lecturer_id', user.id), so the view opens for the owner only.
LecturerUser == "l1"

\* Everyone who can authenticate: the students and the session's lecturer
\* another lecturer
Users == StudentUsers \cup {LecturerUser}

\* One insert decided by the store: the table, the row's key, auth.uid() of
\* the request and whether it was accepted
Write(table, key, uid, ok) == [table |-> table, key |-> key, uid |-> uid, ok |-> ok]

\* (a store that lets any authenticated user create checks)
CheckInsertAllowedAnyone(sess, uid) == uid \in Users

\* Policy "Lecturers can create checks": the session of the check exists and
\* its lecturer_id is auth.uid().
CheckInsertAllowed(sess, uid) == sess.lecturer_id = uid

\* The store commits the session_checks row (id and created_at are the store's
\* defaults) and publishes the INSERT to the subscribed student clients.
TriggerInsertCommit ==
    \E t \in triggers :
        /\ t.stage = "insert"
        /\ LET id == Cardinality(session_checks) + 1
               row == [id |-> id, created_at |-> now,
                       expires_at |-> t.expires_at, is_active |-> TRUE]
           IN  /\ CheckInsertAllowed(attendance_sessions, LecturerUser)
               /\ session_checks' = session_checks \cup {row}
               /\ writes' = writes \cup {Write("session_checks", row.id,
                                                LecturerUser, TRUE)}
               /\ triggers' = (triggers \ {t}) \cup
                                 {[t EXCEPT !.stage = "return", !.id = id]}
               /\ checkEvents' =
                     [d \in StudentClients |->
                         IF students[d].view \in {"loading", "live"}
                            THEN checkEvents[d] \cup {row}
                            ELSE checkEvents[d]]
        /\ UNCHANGED <<now, sessionStore, lecturer, sessionVars,
                       session_check_responses, conflicts, responseEvents,
                       students, scanVars, feedVars>>

\* The insert fails: toast 'Could not start presence check'.
TriggerInsertError ==
    \E t \in triggers :
        /\ t.stage = "insert"
        /\ triggers' = triggers \ {t}
        /\ UNCHANGED <<now, sessionStore, lecturer, sessionVars, checkStore,
                       checkEvents, responseEvents, students, scanVars, feedVars>>

\* The insert's result reaches the lecturer: setActiveCheckId, setCheckTimeLeft,
\* setVerifiedCount; the effect on [activeCheckId] drops the previous channel
\* and interval, subscribes to responses-<id> and starts the 1 s interval.
TriggerReturn ==
    \E t \in triggers :
        /\ t.stage = "return"
        /\ triggers' = triggers \ {t}
        /\ IF lecturer.mounted
              THEN /\ lecturer' = [lecturer EXCEPT
                                      !.activeCheckId = t.id,
                                      !.checkTimeLeft = durationSeconds,
                                      !.verifiedCount = 0,
                                      !.joined = FALSE,
                                      !.checkTimerDue = now + TickMs]
                   /\ responseEvents' = {}
              ELSE UNCHANGED <<lecturer, responseEvents>>
        /\ UNCHANGED <<now, sessionStore, sessionVars, checkStore, checkEvents,
                       students, scanVars, feedVars>>

\* The responses-<activeCheckId> channel is joined: INSERTs committed from now
\* on are delivered.
ResponsesJoined ==
    /\ lecturer.activeCheckId # 0
    /\ ~lecturer.joined
    /\ lecturer' = [lecturer EXCEPT !.joined = TRUE]
    /\ UNCHANGED <<now, sessionStore, sessionVars, checkStore, checkVars,
                   scanVars, feedVars>>

\* responses INSERT handler: setVerifiedCount(prev => prev + 1)
CountResponse(prev) == prev + 1

\* The identity of a record of `table`
Identity(table, id) == <<table, id>>

\* The responses handler runs on event e.
OnResponse(e) ==
    /\ lecturer.activeCheckId = e.check_id
    /\ lecturer' = [lecturer EXCEPT
                       !.verifiedCount = CountResponse(lecturer.verifiedCount)]
    /\ folds' = folds (+) SetToBag({Identity("session_check_responses",
                                              <<e.check_id, e.student_id>>)})

\* An INSERT event of session_check_responses reaches the lecturer's handler.
DeliverResponse ==
    \E e \in responseEvents :
        /\ OnResponse(e)
        /\ responseEvents' = responseEvents \ {e}
        /\ UNCHANGED <<now, sessionStore, sessionVars, checkStore, triggers,
                       checkEvents, students, scanVars, feedStore,
                       attendanceEvents, sentimentEvents, profileLookups>>

\* The feed delivers an event it will deliver again.
RedeliverResponse ==
    \E e \in responseEvents :
        /\ redeliveries < MaxRedeliveries
        /\ redeliveries' = redeliveries + 1
        /\ OnResponse(e)
        /\ UNCHANGED <<now, sessionStore, sessionVars, checkStore, checkVars,
                       scanVars, session_sentiments, attendanceEvents,
                       sentimentEvents, profileLookups>>

\* The lecturer's check countdown: setCheckTimeLeft(prev => ...) once a second.
CheckTick ==
    /\ lecturer.activeCheckId # 0
    /\ now >= lecturer.checkTimerDue
    /\ IF lecturer.checkTimeLeft <= 1
          THEN /\ lecturer' = [lecturer EXCEPT !.activeCheckId = 0,
                                               !.checkTimeLeft = 0,
                                               !.joined = FALSE]
               /\ responseEvents' = {}
          ELSE /\ lecturer' = [lecturer EXCEPT
                                  !.checkTimeLeft = lecturer.checkTimeLeft - 1,
                                  !.checkTimerDue =
                                      NextDue(lecturer.checkTimerDue, now)]
               /\ UNCHANGED responseEvents
    /\ UNCHANGED <<now, sessionStore, sessionVars, checkStore, triggers,
                   checkEvents, students, scanVars, feedVars>>

----------------------------------------------------------------------------
(* Presence checks: a student's LiveClass view *)

Abs(x) == IF x >= 0 THEN x ELSE -x

\* Great-circle distance in metres.  Every modelled point lies on the
\* classroom's meridian and latitudes are measured in metres of arc, so the
\* distance is the difference of the latitudes.
calculateDistance(a, b) == Abs(a.latitude - b.latitude)

\* Where getCurrentLocation() may place the student: metres from the classroom
StudentOffsets == {100, 101, 150, 151}

\* useState initial values of LiveClass, with the session already fetched
\* and the session-<id> channel joined
InitialStudent(user) ==
    [user |-> user, session |-> Some(attendance_sessions),
     activeCheck |-> Null, timeLeft |-> 0, checkStatus |-> "idle",
     timerDue |-> 0, calls |-> {}, resets |-> {},
     view |-> "live", subscribed |-> TRUE, outcome |-> "none"]

\* LiveClass as it mounts: session is null ("Loading class data..."),
\* fetchSession is under way and the channel is not joined yet.
MountedStudent(user) ==
    [InitialStudent(user) EXCEPT !.session = Null, !.view = "loading",
                                 !.subscribed = FALSE]

\* (a LiveClass whose checks-<id> channel has no cleanup)
LiveNavigateKeepChecks(d, view, outcome) ==
    /\ students' = [students EXCEPT ![d] =
          [@ EXCEPT !.view = view, !.outcome = outcome, !.subscribed = FALSE]]
    /\ sessionEvents' = [sessionEvents EXCEPT ![d] = {}]
    /\ UNCHANGED checkEvents

\* navigate('/student/dashboard'): LiveClass unmounts and its effects'
\* cleanups remove the session-<id> and the checks-<id> channel (the
\* countdown's interval is cleared too, see StudentTick; the timeout of the
\* delayed reset has no cleanup).
LiveNavigate(d, view, outcome) ==
    /\ students' = [students EXCEPT ![d] =
          [@ EXCEPT !.view = view, !.outcome = outcome, !.subscribed = FALSE]]
    /\ sessionEvents' = [sessionEvents EXCEPT ![d] = {}]
    /\ checkEvents' = [checkEvents EXCEPT ![d] = {}]

\* fetchSession resolves with the row: an ended session is announced
\* ('Session Ended') and left, a running one is set.
LiveFetchDone(d) ==
    /\ students[d].view = "loading"
    /\ IF ~attendance_sessions.is_active
          THEN LiveNavigate(d, "ended", "Session Ended")
          ELSE /\ students' = [students EXCEPT ![d] =
                     [@ EXCEPT !.session = Some(attendance_sessions),
                               !.view = "live"]]
               /\ UNCHANGED <<sessionEvents, checkEvents>>
    /\ UNCHANGED <<now, attendance_sessions, activity_logs, terminated,
                   lecturer, sessionVars, checkStore, triggers,
                   responseEvents, scanVars, feedVars>>

\* fetchSession resolves with an error or without data: 'Session Not Found'.
LiveFetchError(d) ==
    /\ students[d].view = "loading"
    /\ LiveNavigate(d, "left", "Session Not Found")
    /\ UNCHANGED <<now, attendance_sessions, activity_logs, terminated,
                   lecturer, sessionVars, checkStore, triggers,
                   responseEvents, scanVars, feedVars>>

\* .subscribe(): the session-<id> channel is joined; UPDATEs committed from
\* now on are delivered.
LiveSubscribed(d) ==
    /\ students[d].view \in {"loading", "live"}
    /\ ~students[d].subscribed
    /\ students' = [students EXCEPT ![d] = [@ EXCEPT !.subscribed = TRUE]]
    /\ UNCHANGED <<now, sessionStore, lecturer, sessionVars, checkStore,
                   triggers, checkEvents, responseEvents, scanVars, feedVars>>

\* (a handler that reacts to an UPDATE that leaves the session active)
OnSessionEndedInverted(payload) == payload.new.is_active = TRUE

\* The UPDATE handler's condition: payload.new.is_active === false
OnSessionEnded(payload) == payload.new.is_active = FALSE

\* An attendance_sessions UPDATE event reaches a student client: if the new
\* row is not active, toast 'Class Ended' and navigate to the dashboard.
DeliverSessionUpdate(d) ==
    \E e \in sessionEvents[d] :
        /\ students[d].subscribed
        /\ IF OnSessionEnded(e)
              THEN LiveNavigate(d, "ended", "Class Ended")
              ELSE /\ sessionEvents' = [sessionEvents EXCEPT ![d] = @ \ {e}]
                   /\ UNCHANGED <<students, checkEvents>>
        /\ UNCHANGED <<now, attendance_sessions, activity_logs, terminated,
                       lecturer, sessionVars, checkStore, triggers,
                       responseEvents, scanVars, feedVars>>

\* The back button of LiveClass: navigate('/student/dashboard').
LiveLeave(d) ==
    /\ students[d].view \in {"loading", "live"}
    /\ LiveNavigate(d, "left", "none")
    /\ UNCHANGED <<now, attendance_sessions, activity_logs, terminated,
                   lecturer, sessionVars, checkStore, triggers,
                   responseEvents, scanVars, feedVars>>

\* The countdown effect on [checkStatus, activeCheck]: whenever either changes
\* the interval is cleared and, in 'prompt' with a check, started again.
Rearm(st) == [st EXCEPT !.timerDue = now + TickMs]

\* handleNewCheck, called by the checks-<sessionId> INSERT handler
handleNewCheck(st, checkData) ==
    Rearm([st EXCEPT
              !.activeCheck = Some([id |-> checkData.id,
                                    expires_at |-> checkData.expires_at]),
              !.checkStatus = "prompt",
              !.timeLeft = Remaining(checkData.expires_at, now)])

\* A session_checks INSERT event reaches a student client.
DeliverCheck(d) ==
    \E e \in checkEvents[d] :
        /\ checkEvents' = [checkEvents EXCEPT ![d] = @ \ {e}]
        /\ students' = [students EXCEPT ![d] =
                           IF e.is_active THEN handleNewCheck(@, e) ELSE @]
        /\ UNCHANGED <<now, sessionStore, lecturer, sessionVars, checkStore,
                       triggers, responseEvents, scanVars, feedVars>>

\* (a countdown that shows the time left and never gives up)
StudentTickDisplayOnly(d) ==
    LET st == students[d] IN
    /\ st.checkStatus = "prompt"
    /\ st.activeCheck # Null
    /\ now >= st.timerDue
    /\ LET remaining == Remaining(st.activeCheck[1].expires_at, now)
       IN  students' = [students EXCEPT ![d] =
              [st EXCEPT !.timeLeft = remaining]]
    /\ UNCHANGED <<now, sessionStore, lecturer, sessionVars, checkStore,
                   triggers, checkEvents, responseEvents, scanVars, feedVars>>

\* The student's countdown interval (runs while 'prompt' with a check).
StudentTick(d) ==
    LET st == students[d] IN
    /\ st.view = "live"
    /\ st.checkStatus = "prompt"
    /\ st.activeCheck # Null
    /\ now >= st.timerDue
    /\ LET remaining == Remaining(st.activeCheck[1].expires_at, now)
       IN  students' = [students EXCEPT ![d] =
              IF remaining <= 0
                 THEN [st EXCEPT !.timeLeft = remaining,
                                 !.checkStatus = "idle",
                                 !.activeCheck = Null]
                 ELSE [st EXCEPT !.timeLeft = remaining,
                                 !.timerDue = NextDue(st.timerDue, now)]]
    /\ UNCHANGED <<now, sessionStore, lecturer, sessionVars, checkStore,
                   triggers, checkEvents, responseEvents, scanVars, feedVars>>

\* session.location_required && session.classroom_latitude &&
\* session.classroom_longitude (0 and null are falsy)
LocationRecheckNeeded(sess) ==
    /\ sess.location_required
    /\ sess.classroom_latitude # 0
    /\ sess.classroom_longitude # 0

\* confirmPresence starts: setCheckStatus('verifying'), then the location
\* is asked for, or the insert is sent at once.
confirmPresence(d) ==
    LET st == students[d] IN
    /\ st.checkStatus = "prompt"
    /\ st.activeCheck # Null
    /\ st.session # Null
    /\ students' = [students EXCEPT ![d] =
          [st EXCEPT !.checkStatus = "verifying",
                     !.calls = @ \cup
                        {[check |-> st.activeCheck[1].id,
                          stage |-> IF LocationRecheckNeeded(st.session[1])
                                       THEN "locating" ELSE "inserting"]}]]

\* The "Yes, I'm Here!" button (enabled in 'prompt'): confirmPresence starts.
ConfirmPresence(d) ==
    /\ confirmPresence(d)
    /\ UNCHANGED <<now, sessionStore, lecturer, sessionVars, checkStore,
                   triggers, checkEvents, responseEvents, scanVars, feedVars>>

\* The same button, pressed by a student who gives up after MaxConfirms
\* presses.
ConfirmPresenceCounted(d) ==
    /\ presses < MaxConfirms
    /\ presses' = presses + 1
    /\ confirmPresence(d)
    /\ UNCHANGED <<now, sessionStore, lecturer, endCalls, clicks, mounts,
                   notifications, checkStore, triggers, checkEvents,
                   responseEvents, scanVars, feedVars>>

\* distance > (session.geofence_radius_meters || 150)
LocationMismatch(sess, distance) ==
    distance > (IF sess.geofence_radius_meters # 0
                   THEN sess.geofence_radius_meters ELSE DefaultRecheckRadius)

\* (a re-check that gives the check up when the location cannot be had)
LocationFailedGiveUp(d) ==
    LET st == students[d] IN
    \E c \in st.calls :
        /\ c.stage = "locating"
        /\ students' = [students EXCEPT ![d] =
              [st EXCEPT !.checkStatus = "idle",
                         !.activeCheck = Null,
                         !.calls = @ \ {c}]]
        /\ UNCHANGED <<now, sessionStore, lecturer, sessionVars, checkStore,
                       triggers, checkEvents, responseEvents, scanVars, feedVars>>

\* confirmPresence: getCurrentLocation() rejects, or the distance is over the
\* radius: toast 'Location Check Failed', back to 'prompt', return.
LocationFailed(d) ==
    LET st == students[d] IN
    \E c \in st.calls :
        /\ c.stage = "locating"
        /\ students' = [students EXCEPT ![d] =
              Rearm([st EXCEPT !.checkStatus = "prompt",
                               !.calls = @ \ {c}])]
        /\ UNCHANGED <<now, sessionStore, lecturer, sessionVars, checkStore,
                       triggers, checkEvents, responseEvents, scanVars, feedVars>>

\* confirmPresence: getCurrentLocation() resolves with a position `off`
\* metres from the classroom.
LocationResolvedAt(d, off) ==
    LET st == students[d]
        sess == st.session[1]
    IN
    \E c \in st.calls :
        /\ c.stage = "locating"
        /\ LET distance == calculateDistance(
                              [latitude |-> sess.classroom_latitude + off,
                               longitude |-> sess.classroom_longitude],
                              [latitude |-> sess.classroom_latitude,
                               longitude |-> sess.classroom_longitude])
           IN  students' = [students EXCEPT ![d] =
                  IF LocationMismatch(sess, distance)
                     THEN Rearm([st EXCEPT !.checkStatus = "prompt",
                                           !.calls = @ \ {c}])
                     ELSE [st EXCEPT !.calls = (@ \ {c}) \cup
                                        {[c EXCEPT !.stage = "inserting"]}]]
        /\ UNCHANGED <<now, sessionStore, lecturer, sessionVars, checkStore,
                       triggers, checkEvents, responseEvents, scanVars, feedVars>>

\* confirmPresence: getCurrentLocation() resolves with a position.
LocationResolved(d) == \E off \in StudentOffsets : LocationResolvedAt(d, off)

\* (a store without the UNIQUE(check_id, student_id) constraint)
InsertAllowedNoUnique(check_id, student_id, uid) == student_id = uid

\* What the store demands of an insert into session_check_responses: the
\* policy "Students can respond to checks" (student_id = auth.uid()) and
\* UNIQUE(check_id, student_id).
InsertAllowed(check_id, student_id, uid) ==
    /\ student_id = uid
    /\ ~\E r \in session_check_responses :
           r.check_id = check_id /\ r.student_id = student_id

\* confirmPresence: the insert commits (responded_at is the store's now()) and
\* is published; the client shows 'verified' and arms the 3 s reset.
InsertResponse(d) ==
    LET st == students[d] IN
    \E c \in st.calls :
        /\ c.stage = "inserting"
        /\ InsertAllowed(c.check, st.user, st.user)
        /\ LET row == [check_id |-> c.check, student_id |-> st.user,
                       responded_at |-> now]
           IN  /\ session_check_responses' = session_check_responses \cup {row}
               /\ writes' = writes \cup
                     {Write("session_check_responses",
                            <<row.check_id, row.student_id>>, st.user, TRUE)}
               /\ responseEvents' =
                     IF /\ lecturer.joined /\ lecturer.online
                        /\ lecturer.activeCheckId = c.check
                        THEN responseEvents \cup {row} ELSE responseEvents
        /\ students' = [students EXCEPT ![d] =
              [st EXCEPT !.checkStatus =
                             IF st.view = "live" THEN "verified" ELSE @,
                         !.calls = @ \ {c},
                         !.resets = @ \cup {now + ResetDelayMs}]]
        /\ UNCHANGED <<now, sessionStore, lecturer, sessionVars, session_checks,
                       conflicts, triggers, checkEvents, scanVars, feedVars>>

\* confirmPresence: the insert commits and is published, but its result does
\* not reach the client (the request fails on the way back): toast 'Error',
\* back to 'prompt'.
InsertResponseLost(d) ==
    LET st == students[d] IN
    \E c \in st.calls :
        /\ c.stage = "inserting"
        /\ InsertAllowed(c.check, st.user, st.user)
        /\ LET row == [check_id |-> c.check, student_id |-> st.user,
                       responded_at |-> now]
           IN  /\ session_check_responses' = session_check_responses \cup {row}
               /\ writes' = writes \cup
                     {Write("session_check_responses",
                            <<row.check_id, row.student_id>>, st.user, TRUE)}
               /\ responseEvents' =
                     IF /\ lecturer.joined /\ lecturer.online
                        /\ lecturer.activeCheckId = c.check
                        THEN responseEvents \cup {row} ELSE responseEvents
        /\ students' = [students EXCEPT ![d] =
              Rearm([st EXCEPT !.checkStatus = "prompt",
                               !.calls = @ \ {c}])]
        /\ UNCHANGED <<now, sessionStore, lecturer, sessionVars, session_checks,
                       conflicts, triggers, checkEvents, scanVars, feedVars>>

\* (a confirmPresence whose catch block gives the check up)
InsertResponseErrorDismiss(d) ==
    LET st == students[d] IN
    \E c \in st.calls :
        /\ c.stage = "inserting"
        /\ conflicts' =
              IF InsertAllowed(c.check, st.user, st.user)
                 THEN conflicts
                 ELSE conflicts \cup {<<c.check, st.user>>}
        /\ students' = [students EXCEPT ![d] =
              [st EXCEPT !.checkStatus = "idle",
                         !.activeCheck = Null,
                         !.calls = @ \ {c}]]
        /\ UNCHANGED <<now, sessionStore, lecturer, sessionVars, session_checks,
                       session_check_responses, writes, triggers, checkEvents,
                       responseEvents, scanVars, feedVars>>

\* confirmPresence: the store refuses the insert, or the request fails: toast
\* 'Error', back to 'prompt'.
InsertResponseError(d) ==
    LET st == students[d] IN
    \E c \in st.calls :
        /\ c.stage = "inserting"
        /\ conflicts' =
              IF InsertAllowed(c.check, st.user, st.user)
                 THEN conflicts
                 ELSE conflicts \cup {<<c.check, st.user>>}
        /\ students' = [students EXCEPT ![d] =
              Rearm([st EXCEPT !.checkStatus = "prompt",
                               !.calls = @ \ {c}])]
        /\ UNCHANGED <<now, sessionStore, lecturer, sessionVars, session_checks,
                       session_check_responses, writes, triggers, checkEvents,
                       responseEvents, scanVars, feedVars>>

\* The delayed reset armed after 'verified' fires (it is never cleared).
ResetFire(d) ==
    LET st == students[d] IN
    \E due \in st.resets :
        /\ now >= due
        /\ students' = [students EXCEPT ![d] =
              IF st.view = "live"
                 THEN [st EXCEPT !.checkStatus = "idle",
                                 !.activeCheck = Null,
                                 !.resets = @ \ {due}]
                 ELSE [st EXCEPT !.resets = @ \ {due}]]
        /\ UNCHANGED <<now, sessionStore, lecturer, sessionVars, checkStore,
                       triggers, checkEvents, responseEvents, scanVars, feedVars>>

\* Wall-clock time passes while a check is being started or is about to end.
AdvanceTimeNearCheck ==
    /\ \/ now < EarlySteps * ClockStepMs
       \/ /\ now >= LateSteps * ClockStepMs
          /\ now < HorizonSteps * ClockStepMs
    /\ now' = now + ClockStepMs
    /\ UNCHANGED <<sessionStore, lecturer, sessionVars, checkStore, checkVars,
                   scanVars, feedVars>>

\* A timer of a student client is armed and not yet due.
TimerPending ==
    \E d \in StudentClients :
       \/ /\ students[d].checkStatus = "prompt"
          /\ students[d].activeCheck # Null
          /\ students[d].timerDue > now
       \/ \E due \in students[d].resets : due > now

\* Wall-clock time passes after the check's window, for as long as a client
\* waits for a timer.
AdvanceTimeToTimer ==
    /\ now >= HorizonSteps * ClockStepMs
    /\ TimerPending
    /\ now' = now + ClockStepMs
    /\ UNCHANGED <<sessionStore, lecturer, sessionVars, checkStore, checkVars,
                   scanVars, feedVars>>

\* Nothing is observed between the two windows (every client is suspended).
SkipTime ==
    /\ now <= EarlySteps * ClockStepMs
    /\ now' = LateSteps * ClockStepMs
    /\ UNCHANGED <<sessionStore, lecturer, sessionVars, checkStore, checkVars,
                   scanVars, feedVars>>

----------------------------------------------------------------------------
(* The accept path for a scan (Fraud Guard).  The scanner is not among the
   sources: this section follows sections 4.3, 5 and 7 of the design. *)

\* Where a scanning student may stand: metres from the classroom
ScanOffsets == {100, 101, 150}

\* The configured radius (default 100 m)
ScanRadius(sess) ==
    IF sess.geofence_radius_meters # 0
       THEN sess.geofence_radius_meters ELSE DefaultRadius

ClassroomOf(sess) ==
    [latitude |-> sess.classroom_latitude, longitude |-> sess.classroom_longitude]

\* Step 1, liveness: the session is Active and the store's time is inside its
\* window.
SessionOpen == attendance_sessions.is_active /\ now < attendance_sessions.end_time

\* Step 2, duplicate check: a record exists for (session, student).
HasRecord(student) == \E r \in attendance_records : r.student_id = student

\* (a geofence check that also refuses the boundary)
OutOfRangeStrict(location) ==
    /\ attendance_sessions.location_required
    /\ calculateDistance(location, ClassroomOf(attendance_sessions))
          >= ScanRadius(attendance_sessions)

\* Step 3, geofence check (only if the session requires location).
OutOfRange(location) ==
    /\ attendance_sessions.location_required
    /\ calculateDistance(location, ClassroomOf(attendance_sessions))
          > ScanRadius(attendance_sessions)

\* What the submitting client is told: the signal, the measured distance
\* (OutOfRange only) and whether the guard or the store's write decided;
\* kept with the location that was submitted
Signal(d, what, distance, by) ==
    outcomes' = [outcomes EXCEPT ![d] =
        Append(@, [signal |-> what, distance |-> distance, by |-> by,
                   location |-> scans[d][1].location])]

\* The scans submitted so far, on all devices
ScansSubmitted ==
    Cardinality({d \in StudentClients : scans[d] # Null})
       + Cardinality(UNION {{<<d, i>> : i \in 1..Len(outcomes[d])} :
                               d \in StudentClients})

\* submitScan(code, location?, deviceFingerprint) is called on device d; the
\* location is acquired only for a session that requires it.
SubmitScan(d) ==
    /\ scans[d] = Null
    /\ ScansSubmitted < MaxScans
    /\ \E off \in ScanOffsets :
          scans' = [scans EXCEPT ![d] =
             Some([stage |-> "check",
                   location |->
                      IF attendance_sessions.location_required
                         THEN [latitude |->
                                  attendance_sessions.classroom_latitude + off,
                               longitude |->
                                  attendance_sessions.classroom_longitude]
                         ELSE Null])]
    /\ UNCHANGED <<now, sessionStore, lecturer, sessionVars, checkStore,
                   checkVars, attendance_records, outcomes, feedVars>>

\* (a guard that measures the distance before it looks for a record)
ScanCheckGeofenceFirst(d) ==
    /\ scans[d] # Null
    /\ scans[d][1].stage = "check"
    /\ LET loc == scans[d][1].location
           dist == calculateDistance(loc, ClassroomOf(attendance_sessions))
       IN  IF ~SessionOpen
              THEN scans' = [scans EXCEPT ![d] = Null]
                   /\ Signal(d, "SessionClosed", 0, "guard")
           ELSE IF OutOfRange(loc)
              THEN scans' = [scans EXCEPT ![d] = Null]
                   /\ Signal(d, "OutOfRange", dist, "guard")
           ELSE IF HasRecord(students[d].user)
              THEN scans' = [scans EXCEPT ![d] = Null]
                   /\ Signal(d, "DuplicateScan", 0, "guard")
           ELSE scans' = [scans EXCEPT ![d] = Some([@[1] EXCEPT !.stage = "write"])]
                /\ UNCHANGED outcomes
    /\ UNCHANGED <<now, sessionStore, lecturer, sessionVars, checkStore,
                   checkVars, attendance_records, feedVars>>

\* Steps 1 to 3, in order, short-circuiting on the first failure.
ScanCheck(d) ==
    /\ scans[d] # Null
    /\ scans[d][1].stage = "check"
    /\ LET loc == scans[d][1].location
           dist == calculateDistance(loc, ClassroomOf(attendance_sessions))
       IN  IF ~SessionOpen
              THEN scans' = [scans EXCEPT ![d] = Null]
                   /\ Signal(d, "SessionClosed", 0, "guard")
           ELSE IF HasRecord(students[d].user)
              THEN scans' = [scans EXCEPT ![d] = Null]
                   /\ Signal(d, "DuplicateScan", 0, "guard")
           ELSE IF OutOfRange(loc)
              THEN scans' = [scans EXCEPT ![d] = Null]
                   /\ Signal(d, "OutOfRange", dist, "guard")
           ELSE scans' = [scans EXCEPT ![d] = Some([@[1] EXCEPT !.stage = "write"])]
                /\ UNCHANGED outcomes
    /\ UNCHANGED <<now, sessionStore, lecturer, sessionVars, checkStore,
                   checkVars, attendance_records, feedVars>>

\* (a store without the uniqueness constraint on (session, student))
RecordInsertAlways(student) == TRUE

\* The store's uniqueness constraint: one record per (session, student).
RecordInsertAllowed(student) == ~HasRecord(student)

\* Step 4, accept: the durable write, decided by the store (its time, its
\* uniqueness constraint); the INSERT is published to the lecturer's feed.
ScanWrite(d) ==
    /\ scans[d] # Null
    /\ scans[d][1].stage = "write"
    /\ scans' = [scans EXCEPT ![d] = Null]
    /\ LET student == students[d].user
           row == [id |-> Cardinality(attendance_records) + 1,
                   student_id |-> student, scanned_at |-> now,
                   location |-> scans[d][1].location]
       IN  IF ~SessionOpen
              THEN /\ Signal(d, "SessionClosed", 0, "store")
                   /\ UNCHANGED <<attendance_records, attendanceEvents>>
           ELSE IF ~RecordInsertAllowed(student)
              THEN /\ Signal(d, "DuplicateScan", 0, "store")
                   /\ UNCHANGED <<attendance_records, attendanceEvents>>
           ELSE /\ Signal(d, "Accepted", 0, "store")
                /\ attendance_records' = attendance_records \cup {row}
                /\ attendanceEvents' =
                      IF /\ lecturer.mounted /\ lecturer.online
                         /\ lecturer.session # Null
                         THEN attendanceEvents \cup {row} ELSE attendanceEvents
    /\ UNCHANGED <<now, sessionStore, lecturer, sessionVars, checkStore,
                   checkVars, feedStore, sentimentEvents, profileLookups, folds>>

----------------------------------------------------------------------------
(* The lecturer's live views: attendance feed and sentiment tally *)

\* fetchSentiments: the select on session_sentiments resolves and is reduced
\* to counts per sentiment.
SentimentsQuery ==
    /\ lecturer.mounted
    /\ lecturer.sentPc = "query"
    /\ lecturer' = [lecturer EXCEPT
          !.sentPc = "set",
          !.sentFetched =
              [k \in SentimentKinds |->
                  Cardinality({r \in session_sentiments : r.sentiment = k})]]
    /\ UNCHANGED <<now, sessionStore, sessionVars, checkStore, checkVars,
                   scanVars, feedVars>>

\* fetchSentiments: setSentiments(counts)
SentimentsSet ==
    /\ lecturer.mounted
    /\ lecturer.sentPc = "set"
    /\ lecturer' = [lecturer EXCEPT !.sentPc = "idle",
                                    !.sentiments = lecturer.sentFetched,
                                    !.sentFetched = NoSentiments]
    /\ UNCHANGED <<now, sessionStore, sessionVars, checkStore, checkVars,
                   scanVars, feedVars>>

\* fetchSentiments: the select returns no data; nothing is set.
SentimentsError ==
    /\ lecturer.mounted
    /\ lecturer.sentPc = "query"
    /\ lecturer' = [lecturer EXCEPT !.sentPc = "idle"]
    /\ UNCHANGED <<now, sessionStore, sessionVars, checkStore, checkVars,
                   scanVars, feedVars>>

\* A student emits a sentiment: the insert passes the policy "Students can
\* insert their own sentiment" (auth.uid() = student_id), commits (many per
\* student are allowed) and is published.
EmitSentiment(d) ==
    /\ Cardinality(session_sentiments) < MaxSentiments
    /\ \E k \in SentimentKinds :
          LET row == [id |-> Cardinality(session_sentiments) + 1,
                      student_id |-> students[d].user, sentiment |-> k]
          IN  /\ session_sentiments' = session_sentiments \cup {row}
              /\ sentimentEvents' =
                    IF lecturer.mounted /\ lecturer.online
                       THEN sentimentEvents \cup {row} ELSE sentimentEvents
    /\ UNCHANGED <<now, sessionStore, lecturer, sessionVars, checkStore,
                   checkVars, scanVars, redeliveries, attendanceEvents,
                   profileLookups, folds>>

\* sentiment-changes INSERT handler:
\* setSentiments(prev => ({...prev, [sentiment]: (prev[sentiment] || 0) + 1}))
CountSentiment(prev, e) == [prev EXCEPT ![e.sentiment] = @ + 1]

\* The sentiment handler runs on event e.
OnSentiment(e) ==
    /\ lecturer' = [lecturer EXCEPT
                       !.sentiments = CountSentiment(lecturer.sentiments, e)]
    /\ folds' = folds (+) SetToBag({Identity("session_sentiments", e.id)})

\* An INSERT event of session_sentiments reaches the lecturer's handler.
DeliverSentiment ==
    \E e \in sentimentEvents :
        /\ OnSentiment(e)
        /\ sentimentEvents' = sentimentEvents \ {e}
        /\ UNCHANGED <<now, sessionStore, sessionVars, checkStore, checkVars,
                       scanVars, feedStore, attendanceEvents, profileLookups>>

\* The feed delivers an event it will deliver again.
RedeliverSentiment ==
    \E e \in sentimentEvents :
        /\ redeliveries < MaxRedeliveries
        /\ redeliveries' = redeliveries + 1
        /\ OnSentiment(e)
        /\ UNCHANGED <<now, sessionStore, sessionVars, checkStore, checkVars,
                       scanVars, session_sentiments, attendanceEvents,
                       sentimentEvents, profileLookups>>

\* attendance-changes INSERT handler, first half: the student's profile is
\* requested.
OnAttendance(e) ==
    profileLookups' = profileLookups (+) SetToBag({Attendee(e)})

\* An INSERT event of attendance_records reaches the lecturer's handler.
DeliverAttendance ==
    \E e \in attendanceEvents :
        /\ OnAttendance(e)
        /\ attendanceEvents' = attendanceEvents \ {e}
        /\ UNCHANGED <<now, sessionStore, lecturer, sessionVars, checkStore,
                       checkVars, scanVars, feedStore, sentimentEvents, folds>>

\* The feed delivers an event it will deliver again.
RedeliverAttendance ==
    \E e \in attendanceEvents :
        /\ redeliveries < MaxRedeliveries
        /\ redeliveries' = redeliveries + 1
        /\ OnAttendance(e)
        /\ UNCHANGED <<now, sessionStore, lecturer, sessionVars, checkStore,
                       checkVars, scanVars, session_sentiments,
                       attendanceEvents, sentimentEvents, folds>>

\* setAttendees((prev) => [newAttendee, ...prev])
Prepend(prev, newAttendee) == <<newAttendee>> \o prev

\* attendance-changes INSERT handler, second half: the profile has arrived
\* and the new attendee is put on top of the list.
AttendeePrepend ==
    \E a \in BagToSet(profileLookups) :
        /\ profileLookups' = profileLookups (-) SetToBag({a})
        /\ lecturer' = [lecturer EXCEPT
                           !.attendees = Prepend(lecturer.attendees, a)]
        /\ folds' = folds (+) SetToBag({Identity("attendance_records", a.id)})
        /\ UNCHANGED <<now, sessionStore, sessionVars, checkStore, checkVars,
                       scanVars, feedStore, attendanceEvents, sentimentEvents>>

\* The view's realtime socket is lost: the events in flight to it are lost
\* with it, and nothing is delivered until it is regained.
FeedDrop ==
    /\ lecturer.mounted
    /\ lecturer.online
    /\ lecturer.outages < MaxOutages
    /\ lecturer' = [lecturer EXCEPT !.online = FALSE]
    /\ attendanceEvents' = {}
    /\ sentimentEvents' = {}
    /\ responseEvents' = {}
    /\ UNCHANGED <<now, sessionStore, sessionVars, checkStore, triggers,
                   checkEvents, students, scanVars, feedStore, profileLookups,
                   folds>>

\* The socket is regained: the channels created by .subscribe() are joined
\* again by the client library; the view runs no code of its own (no status
\* callback is passed to subscribe, no effect depends on the connection).
FeedReconnect ==
    /\ lecturer.mounted
    /\ ~lecturer.online
    /\ lecturer' = [lecturer EXCEPT !.online = TRUE, !.outages = @ + 1]
    /\ UNCHANGED <<now, sessionStore, sessionVars, checkStore, checkVars,
                   scanVars, feedVars>>

\* Wall-clock time passes while the feed is watched.
FeedTime ==
    /\ now < FeedClockSteps * ClockStepMs
    /\ now' = now + ClockStepMs
    /\ UNCHANGED <<sessionStore, lecturer, sessionVars, checkStore, checkVars,
                   scanVars, feedVars>>

----------------------------------------------------------------------------
(* Session lifecycle: one session, created Active, and its lecturer *)

\* The session row as startSession left it, with the geofence settings `geo`
SessionRow(end, geo) ==
    [is_active |-> TRUE, end_time |-> end, lecturer_id |-> LecturerUser,
     location_required |-> geo.location_required,
     classroom_latitude |-> geo.classroom_latitude,
     classroom_longitude |-> geo.classroom_longitude,
     geofence_radius_meters |-> geo.geofence_radius_meters]

\* Geofence settings of a session (null is written 0)
Geofences ==
    {[location_required |-> FALSE, classroom_latitude |-> 5000,
      classroom_longitude |-> 5000, geofence_radius_meters |-> 100],
     [location_required |-> TRUE, classroom_latitude |-> 5000,
      classroom_longitude |-> 5000, geofence_radius_meters |-> 100],
     [location_required |-> TRUE, classroom_latitude |-> 5000,
      classroom_longitude |-> 5000, geofence_radius_meters |-> 0],
     [location_required |-> TRUE, classroom_latitude |-> 0,
      classroom_longitude |-> 5000, geofence_radius_meters |-> 100]}

NoSessionActivity ==
    /\ presses = 0
    /\ activity_logs = 0
    /\ terminated = FALSE
    /\ sessionEvents = [d \in StudentClients |-> {}]
    /\ endCalls = EmptyBag
    /\ clicks = 0

NoScans ==
    /\ attendance_records = {}
    /\ scans = [d \in StudentClients |-> Null]
    /\ outcomes = [d \in StudentClients |-> <<>>]

NoFeed ==
    /\ session_sentiments = {}
    /\ redeliveries = 0
    /\ attendanceEvents = {}
    /\ sentimentEvents = {}
    /\ profileLookups = EmptyBag
    /\ folds = EmptyBag

NoChecks ==
    /\ session_checks = {}
    /\ session_check_responses = {}
    /\ conflicts = {}
    /\ writes = {}
    /\ triggers = {}
    /\ checkEvents = [d \in StudentClients |-> {}]
    /\ responseEvents = {}

InitSession ==
    /\ now = 0
    /\ \E geo \in Geofences :
          /\ geo.location_required /\ geo.geofence_radius_meters # 0
          /\ geo.classroom_latitude # 0
          /\ attendance_sessions = SessionRow(SessionEndSteps * ClockStepMs, geo)
    /\ lecturer = InitialView
    /\ mounts = 0
    /\ notifications = 0
    /\ NoSessionActivity
    /\ NoChecks
    /\ NoScans
    /\ NoFeed
    /\ students = [d \in StudentClients |-> InitialStudent("s1")]

NextSession ==
    \/ LecturerMount
    \/ FetchSessionDone
    \/ FetchSessionFail
    \/ FetchAttendeesQuery
    \/ FetchAttendeesSet
    \/ FetchAttendeesError
    \/ SessionTick
    \/ EndSessionClick
    \/ EndSessionUpdate
    \/ EndSessionError
    \/ EndSessionFinish
    \/ LecturerLeave
    \/ AdvanceTime

SpecSession == InitSession /\ [][NextSession]_vars

----------------------------------------------------------------------------
(* The session's expiry with a store that fails for a while: the view is
   opened and stays open, the countdown runs, and every update of endSession
   either commits or fails.  Beyond the modelled horizon the clock's reading
   saturates and the interval keeps firing once a second. *)

\* A second passes beyond the horizon: the interval of the session countdown
\* is due again.  The requests under way have resolved by then.
AdvanceTimeBeyondHorizon ==
    /\ now = MaxClockSteps * ClockStepMs
    /\ lecturer.mounted
    /\ lecturer.session # Null
    /\ lecturer.timerDue > now
    /\ endCalls = EmptyBag
    /\ lecturer' = [lecturer EXCEPT !.timerDue = now]
    /\ UNCHANGED <<now, sessionStore, sessionVars, checkStore, checkVars,
                   scanVars, feedVars>>

NextRetry ==
    \/ LecturerMount
    \/ FetchSessionDone
    \/ FetchAttendeesQuery
    \/ FetchAttendeesSet
    \/ SessionTick
    \/ EndSessionUpdate
    \/ EndSessionError
    \/ EndSessionFinish
    \/ AdvanceTime
    \/ AdvanceTimeBeyondHorizon

SpecRetry == InitSession /\ [][NextRetry]_vars

\* The clock runs, the interval fires when it is due, every request of
\* endSession resolves, and the store does not fail for ever: an update that
\* is requested again and again is accepted at some point.
FairStore ==
    /\ WF_vars(AdvanceTime)
    /\ WF_vars(AdvanceTimeBeyondHorizon)
    /\ WF_vars(SessionTick)
    /\ WF_vars(EndSessionUpdate \/ EndSessionError)
    /\ SF_vars(EndSessionUpdate)
    /\ WF_vars(EndSessionFinish)

SpecRetryFair == SpecRetry /\ FairStore

----------------------------------------------------------------------------
(* Opening the session's page: the lecturer enters and leaves the
   ActiveSession view of the running session while it loads. *)

NextMount ==
    \/ LecturerMount
    \/ FetchSessionDone
    \/ FetchSessionFail
    \/ FetchAttendeesQuery
    \/ FetchAttendeesSet
    \/ FetchAttendeesError
    \/ SentimentsQuery
    \/ SentimentsSet
    \/ SentimentsError
    \/ LecturerLeave
    \/ AdvanceTime

SpecMount == InitSession /\ [][NextMount]_vars

----------------------------------------------------------------------------
(* Presence checks: the lecturer's view is open on the running session and
   two student devices show its LiveClass view; the second device belongs to
   the first student or to another one. *)

InitCheck ==
    /\ now = 0
    /\ \E geo \in Geofences :
          /\ geo.location_required /\ geo.geofence_radius_meters # 0
          /\ attendance_sessions = SessionRow(2 * HorizonSteps * ClockStepMs, geo)
    /\ lecturer = [InitialView EXCEPT !.mounted = TRUE,
                                      !.session = Some(attendance_sessions),
                                      !.loading = FALSE,
                                      !.timerDue = TickMs]
    /\ mounts = 1
    /\ notifications = 1
    /\ NoSessionActivity
    /\ NoChecks
    /\ NoScans
    /\ NoFeed
    /\ \E u \in StudentUsers :
          students = [d \in StudentClients |->
                         InitialStudent(IF d = "d1" THEN "s1" ELSE u)]

NextCheck ==
    \/ TriggerPresenceCheck
    \/ TriggerInsertCommit
    \/ TriggerInsertError
    \/ TriggerReturn
    \/ ResponsesJoined
    \/ DeliverResponse
    \/ CheckTick
    \/ \E d \in StudentClients :
          \/ DeliverCheck(d)
          \/ StudentTick(d)
          \/ ConfirmPresence(d)
          \/ LocationFailed(d)
          \/ LocationResolved(d)
          \/ InsertResponse(d)
          \/ InsertResponseError(d)
          \/ ResetFire(d)
    \/ AdvanceTimeNearCheck
    \/ SkipTime

SpecCheck == InitCheck /\ [][NextCheck]_vars

----------------------------------------------------------------------------
(* The lecturer's Presence Verification card: the button is pressed, also a
   second time while the first insert is under way, the inserts commit and
   return, the countdown ticks and a student answers. *)

NextPress ==
    \/ TriggerPresenceCheckAgain
    \/ TriggerInsertCommit
    \/ TriggerInsertError
    \/ TriggerReturn
    \/ ResponsesJoined
    \/ DeliverResponse
    \/ CheckTick
    \/ \E d \in {"d1"} :
          \/ DeliverCheck(d)
          \/ ConfirmPresence(d)
          \/ LocationResolved(d)
          \/ InsertResponse(d)
    \/ SkipTime

SpecPress == InitCheck /\ [][NextPress]_vars

----------------------------------------------------------------------------
(* Store writes that fail: the lecturer ends the session and starts a check,
   a student answers it, and each of the three writes may be rejected. *)

InitFailure ==
    /\ now = 0
    /\ \E geo \in Geofences :
          /\ ~geo.location_required
          /\ attendance_sessions = SessionRow(2 * HorizonSteps * ClockStepMs, geo)
    /\ lecturer = [InitialView EXCEPT !.mounted = TRUE,
                                      !.session = Some(attendance_sessions),
                                      !.loading = FALSE,
                                      !.timerDue = TickMs]
    /\ mounts = 1
    /\ notifications = 1
    /\ NoSessionActivity
    /\ NoChecks
    /\ NoScans
    /\ NoFeed
    /\ students = [d \in StudentClients |->
                      InitialStudent(IF d = "d1" THEN "s1" ELSE "s2")]

NextFailure ==
    \/ EndSessionClick
    \/ EndSessionUpdate
    \/ EndSessionError
    \/ EndSessionFinish
    \/ TriggerPresenceCheck
    \/ TriggerInsertCommit
    \/ TriggerInsertError
    \/ TriggerReturn
    \/ \E d \in StudentClients :
          \/ DeliverCheck(d)
          \/ ConfirmPresenceCounted(d)
          \/ InsertResponse(d)
          \/ InsertResponseError(d)

SpecFailure == InitFailure /\ [][NextFailure]_vars

----------------------------------------------------------------------------
(* Responding to one presence check: the check has been committed and
   published, the lecturer's view shows it and has not yet joined the
   responses channel; two devices, of one student or of two, respond, and
   the result of an insert may be lost on its way back to the client. *)

InitRespond ==
    /\ now = 0
    /\ \E geo \in Geofences :
          /\ geo.location_required
          /\ attendance_sessions = SessionRow(2 * HorizonSteps * ClockStepMs, geo)
    /\ session_checks = {[id |-> 1, created_at |-> 0,
                          expires_at |-> durationSeconds * 1000,
                          is_active |-> TRUE]}
    /\ lecturer = [InitialView EXCEPT !.mounted = TRUE,
                                      !.session = Some(attendance_sessions),
                                      !.loading = FALSE,
                                      !.timerDue = TickMs,
                                      !.activeCheckId = 1,
                                      !.checkTimeLeft = durationSeconds,
                                      !.checkTimerDue = TickMs]
    /\ mounts = 1
    /\ notifications = 1
    /\ NoSessionActivity
    /\ session_check_responses = {}
    /\ conflicts = {}
    /\ writes = {Write("session_checks", 1, LecturerUser, TRUE)}
    /\ triggers = {}
    /\ checkEvents = [d \in StudentClients |-> {CheckRow(1)}]
    /\ responseEvents = {}
    /\ NoScans
    /\ NoFeed
    /\ \E u \in StudentUsers :
          students = [d \in StudentClients |->
                         InitialStudent(IF d = "d1" THEN "s1" ELSE u)]

NextRespond ==
    \/ \E d \in StudentClients :
          \/ DeliverCheck(d)
          \/ StudentTick(d)
          \/ ConfirmPresence(d)
          \/ LocationFailed(d)
          \/ LocationResolved(d)
          \/ InsertResponse(d)
          \/ InsertResponseLost(d)
          \/ InsertResponseError(d)
          \/ ResetFire(d)
    \/ AdvanceTimeNearCheck
    \/ SkipTime

SpecRespond == InitRespond /\ [][NextRespond]_vars

----------------------------------------------------------------------------
(* A second presence check while the first is being answered: check 1 has
   been committed and published; the lecturer has opened the ActiveSession
   page again (activeCheckId is null in the new view) and has just pressed
   "Start Random Check", whose insert is on its way to the store.  One
   student device is in use; the other one stays in the background. *)

InitStatus ==
    /\ now = 0
    /\ \E geo \in Geofences :
          /\ LocationRecheckNeeded(geo) /\ geo.geofence_radius_meters # 0
          /\ attendance_sessions = SessionRow(2 * HorizonSteps * ClockStepMs, geo)
    /\ session_checks = {[id |-> 1, created_at |-> 0,
                          expires_at |-> durationSeconds * 1000,
                          is_active |-> TRUE]}
    /\ lecturer = [InitialView EXCEPT !.mounted = TRUE,
                                      !.session = Some(attendance_sessions),
                                      !.loading = FALSE,
                                      !.timerDue = TickMs]
    /\ mounts = 2
    /\ notifications = 2
    /\ NoSessionActivity
    /\ session_check_responses = {}
    /\ conflicts = {}
    /\ writes = {Write("session_checks", 1, LecturerUser, TRUE)}
    /\ triggers = {[stage |-> "insert",
                    expires_at |-> now + durationSeconds * 1000,
                    id |-> 0, seq |-> 1]}
    /\ checkEvents = [d \in StudentClients |-> {CheckRow(1)}]
    /\ responseEvents = {}
    /\ NoScans
    /\ NoFeed
    /\ \E u \in StudentUsers :
          students = [d \in StudentClients |->
                         InitialStudent(IF d = "d1" THEN "s1" ELSE u)]

NextStatus ==
    \/ TriggerInsertCommit
    \/ TriggerInsertError
    \/ TriggerReturn
    \/ \E d \in {"d1"} :
          \/ DeliverCheck(d)
          \/ StudentTick(d)
          \/ ConfirmPresence(d)
          \/ LocationFailed(d)
          \/ LocationResolved(d)
          \/ InsertResponse(d)
          \/ InsertResponseLost(d)
          \/ InsertResponseError(d)
          \/ ResetFire(d)
    \/ AdvanceTimeNearCheck
    \/ SkipTime

SpecStatus == InitStatus /\ [][NextStatus]_vars

----------------------------------------------------------------------------
(* The end of the session seen from the students' devices: the lecturer's
   view is open and loaded, two students open LiveClass, and the lecturer
   ends the session. *)

InitLive ==
    /\ now = 0
    /\ \E geo \in Geofences :
          /\ ~geo.location_required
          /\ attendance_sessions = SessionRow(SessionEndSteps * ClockStepMs, geo)
    /\ lecturer = [InitialView EXCEPT !.mounted = TRUE,
                                      !.session = Some(attendance_sessions),
                                      !.loading = FALSE,
                                      !.timerDue = TickMs]
    /\ mounts = 1
    /\ notifications = 1
    /\ NoSessionActivity
    /\ NoChecks
    /\ NoScans
    /\ NoFeed
    /\ students = [d \in StudentClients |->
                      MountedStudent(IF d = "d1" THEN "s1" ELSE "s2")]

NextLive ==
    \/ EndSessionClick
    \/ EndSessionUpdate
    \/ EndSessionError
    \/ EndSessionFinish
    \/ \E d \in StudentClients :
          \/ LiveFetchDone(d)
          \/ LiveFetchError(d)
          \/ LiveSubscribed(d)
          \/ DeliverSessionUpdate(d)
          \/ LiveLeave(d)

SpecLive == InitLive /\ [][NextLive]_vars

\* The realtime feed delivers every event it holds for a joined channel.
FairDelivery == \A d \in StudentClients : WF_vars(DeliverSessionUpdate(d))

SpecLiveFair == SpecLive /\ FairDelivery

----------------------------------------------------------------------------
(* The session's window runs out with the lecturer's page closed: two
   students open LiveClass and the clock runs through end_time. *)

InitExpiry ==
    /\ now = 0
    /\ \E geo \in Geofences :
          /\ ~geo.location_required
          /\ attendance_sessions = SessionRow(SessionEndSteps * ClockStepMs, geo)
    /\ lecturer = InitialView
    /\ mounts = 0
    /\ notifications = 0
    /\ NoSessionActivity
    /\ NoChecks
    /\ NoScans
    /\ NoFeed
    /\ students = [d \in StudentClients |->
                      MountedStudent(IF d = "d1" THEN "s1" ELSE "s2")]

NextExpiry ==
    \/ \E d \in StudentClients :
          \/ LiveFetchDone(d)
          \/ LiveFetchError(d)
          \/ LiveSubscribed(d)
          \/ LiveLeave(d)
    \/ AdvanceTime

SpecExpiry == InitExpiry /\ [][NextExpiry]_vars

----------------------------------------------------------------------------
(* A presence check runs out on a student's device: check 1 has been
   committed and published; the student of one device presses "Yes, I'm
   Here!" a few times or not at all, and the clock runs through the check's
   window and on while a timer of the device is armed.  The other device
   stays in the background. *)

NextMissed ==
    \/ \E d \in {"d1"} :
          \/ DeliverCheck(d)
          \/ StudentTick(d)
          \/ ConfirmPresenceCounted(d)
          \/ LocationFailed(d)
          \/ LocationResolved(d)
          \/ InsertResponse(d)
          \/ InsertResponseLost(d)
          \/ InsertResponseError(d)
          \/ ResetFire(d)
    \/ AdvanceTimeNearCheck
    \/ SkipTime
    \/ AdvanceTimeToTimer

SpecMissed == InitRespond /\ [][NextMissed]_vars

\* The clock runs, the feed delivers, the timers of LiveClass fire when they
\* are due and the calls of confirmPresence complete.
FairClient ==
    /\ WF_vars(AdvanceTimeNearCheck \/ SkipTime \/ AdvanceTimeToTimer)
    /\ \A d \in {"d1"} :
          /\ WF_vars(DeliverCheck(d))
          /\ WF_vars(StudentTick(d))
          /\ WF_vars(ResetFire(d))
          /\ WF_vars(LocationFailed(d) \/ LocationResolved(d))
          /\ WF_vars(InsertResponse(d) \/ InsertResponseLost(d)
                        \/ InsertResponseError(d))

SpecMissedFair == SpecMissed /\ FairClient

----------------------------------------------------------------------------
(* The lecturer opens the ActiveSession page while students scan: the
   initial fetches of the view run while inserts are committed and their
   events arrive. *)

InitJoin ==
    /\ now = 0
    /\ \E geo \in Geofences :
          /\ ~geo.location_required
          /\ attendance_sessions = SessionRow(SessionEndSteps * ClockStepMs, geo)
    /\ lecturer = InitialView
    /\ mounts = 0
    /\ notifications = 0
    /\ NoSessionActivity
    /\ NoChecks
    /\ NoScans
    /\ NoFeed
    /\ students = [d \in StudentClients |->
                      InitialStudent(IF d = "d1" THEN "s1" ELSE "s2")]

NextJoin ==
    \/ LecturerMount
    \/ FetchSessionDone
    \/ FetchAttendeesQuery
    \/ FetchAttendeesSet
    \/ SentimentsQuery
    \/ SentimentsSet
    \/ \E d \in StudentClients :
          \/ SubmitScan(d)
          \/ ScanCheck(d)
          \/ ScanWrite(d)
          \/ EmitSentiment(d)
    \/ DeliverAttendance
    \/ AttendeePrepend
    \/ DeliverSentiment

SpecJoin == InitJoin /\ [][NextJoin]_vars

----------------------------------------------------------------------------
(* The store's access rules: any authenticated user sends inserts into
   session_checks and session_check_responses straight to the store, with
   any student_id.  The rules do not read the clock, which stands still. *)

\* An insert into session_checks for the session, sent by `uid`.
ApiInsertCheck(uid) ==
    /\ Cardinality(session_checks) < MaxChecks
    /\ LET id == Cardinality(session_checks) + 1
           row == [id |-> id, created_at |-> now,
                   expires_at |-> now + durationSeconds * 1000,
                   is_active |-> TRUE]
       IN  IF CheckInsertAllowed(attendance_sessions, uid)
              THEN /\ session_checks' = session_checks \cup {row}
                   /\ writes' = writes \cup
                         {Write("session_checks", id, uid, TRUE)}
              ELSE /\ writes' = writes \cup
                         {Write("session_checks", id, uid, FALSE)}
                   /\ UNCHANGED session_checks
    /\ UNCHANGED <<now, sessionStore, lecturer, sessionVars,
                   session_check_responses, conflicts, checkVars, scanVars,
                   feedVars>>

\* An insert into session_check_responses of a row (check_id, student_id),
\* sent by `uid`.
ApiInsertResponse(uid, check_id, student_id) ==
    /\ \E c \in session_checks : c.id = check_id
    /\ LET key == <<check_id, student_id>>
           row == [check_id |-> check_id, student_id |-> student_id,
                   responded_at |-> now]
       IN  IF InsertAllowed(check_id, student_id, uid)
              THEN /\ session_check_responses' =
                         session_check_responses \cup {row}
                   /\ writes' = writes \cup
                         {Write("session_check_responses", key, uid, TRUE)}
              ELSE /\ writes' = writes \cup
                         {Write("session_check_responses", key, uid, FALSE)}
                   /\ UNCHANGED session_check_responses
    /\ UNCHANGED <<now, sessionStore, lecturer, sessionVars, session_checks,
                   conflicts, checkVars, scanVars, feedVars>>

NextStore ==
    \/ \E uid \in Users : ApiInsertCheck(uid)
    \/ \E uid \in Users, check_id \in 1..MaxChecks, student_id \in StudentUsers :
          ApiInsertResponse(uid, check_id, student_id)

SpecStore == InitSession /\ [][NextStore]_vars

----------------------------------------------------------------------------
(* Scanning: two student devices, of one student or of two, submit scans
   while the clock runs through the end of the session's window. *)

InitScan ==
    /\ now = 0
    /\ \E geo \in Geofences :
          /\ geo.classroom_latitude # 0 /\ geo.geofence_radius_meters # 0
          /\ attendance_sessions = SessionRow(SessionEndSteps * ClockStepMs, geo)
    /\ lecturer = InitialView
    /\ mounts = 0
    /\ notifications = 0
    /\ NoSessionActivity
    /\ NoChecks
    /\ NoScans
    /\ NoFeed
    /\ \E u \in StudentUsers :
          students = [d \in StudentClients |->
                         InitialStudent(IF d = "d1" THEN "s1" ELSE u)]

NextScan ==
    \/ \E d \in StudentClients :
          \/ SubmitScan(d)
          \/ ScanCheck(d)
          \/ ScanWrite(d)
    \/ AdvanceTime

SpecScan == InitScan /\ [][NextScan]_vars

----------------------------------------------------------------------------
(* The live views: the lecturer's view is open and loaded, a presence check
   has just been started, has reached the first student's device and is
   still in flight to the second; students scan, emit sentiments and confirm
   their presence, and the feed may deliver an event twice. *)

InitFeed ==
    /\ now = 0
    /\ \E geo \in Geofences :
          /\ ~geo.location_required
          /\ attendance_sessions = SessionRow(2 * HorizonSteps * ClockStepMs, geo)
    /\ session_checks = {[id |-> 1, created_at |-> 0,
                          expires_at |-> durationSeconds * 1000,
                          is_active |-> TRUE]}
    /\ lecturer = [InitialView EXCEPT !.mounted = TRUE,
                                      !.session = Some(attendance_sessions),
                                      !.loading = FALSE,
                                      !.timerDue = TickMs,
                                      !.activeCheckId = 1,
                                      !.checkTimeLeft = durationSeconds,
                                      !.joined = TRUE,
                                      !.checkTimerDue = TickMs]
    /\ mounts = 1
    /\ notifications = 1
    /\ NoSessionActivity
    /\ session_check_responses = {}
    /\ conflicts = {}
    /\ writes = {Write("session_checks", 1, LecturerUser, TRUE)}
    /\ triggers = {}
    /\ responseEvents = {}
    /\ NoScans
    /\ NoFeed
    /\ checkEvents = [d \in StudentClients |->
                         IF d = "d1" THEN {} ELSE {CheckRow(1)}]
    /\ students = [d \in StudentClients |->
          IF d = "d1" THEN handleNewCheck(InitialStudent("s1"), CheckRow(1))
                      ELSE InitialStudent("s2")]

NextFeed ==
    \/ \E d \in StudentClients :
          \/ SubmitScan(d)
          \/ ScanCheck(d)
          \/ ScanWrite(d)
          \/ EmitSentiment(d)
          \/ ConfirmPresence(d)
          \/ InsertResponse(d)
    \/ DeliverAttendance
    \/ RedeliverAttendance
    \/ AttendeePrepend
    \/ DeliverSentiment
    \/ RedeliverSentiment
    \/ DeliverResponse
    \/ RedeliverResponse
    \/ FeedTime

SpecFeed == InitFeed /\ [][NextFeed]_vars

----------------------------------------------------------------------------
(* The live views over a flaky connection: as above, but every event is
   delivered once at most and the lecturer's realtime socket may be lost and
   regained. *)

NextReconnect ==
    \/ \E d \in StudentClients :
          \/ SubmitScan(d)
          \/ ScanCheck(d)
          \/ ScanWrite(d)
          \/ EmitSentiment(d)
          \/ ConfirmPresence(d)
          \/ InsertResponse(d)
    \/ DeliverAttendance
    \/ AttendeePrepend
    \/ DeliverSentiment
    \/ DeliverResponse
    \/ FeedDrop
    \/ FeedReconnect

SpecReconnect == InitFeed /\ [][NextReconnect]_vars

----------------------------------------------------------------------------
(* Leaving during a presence check: a check is open, the lecturer's view
   counts its responses, the students answer it, and either side may leave
   its page (the effects' cleanups run) while calls and timers are pending.
   The check is in the last seconds of its window: the lecturer's interval
   has ticked once a second since the check was started, one student has
   just been prompted and the other's event is still on its way.  The clock
   moves from one pending timer to the next. *)

InitLeave ==
    /\ now = LeaveStartSteps * ClockStepMs
    /\ \E geo \in Geofences :
          /\ ~geo.location_required
          /\ attendance_sessions = SessionRow(2 * HorizonSteps * ClockStepMs, geo)
    /\ session_checks = {[id |-> 1, created_at |-> 0,
                          expires_at |-> durationSeconds * 1000,
                          is_active |-> TRUE]}
    /\ lecturer = [InitialView EXCEPT
                      !.mounted = TRUE,
                      !.session = Some(attendance_sessions),
                      !.loading = FALSE,
                      !.timerDue = NextDue(TickMs, now),
                      !.activeCheckId = 1,
                      !.checkTimeLeft = durationSeconds - (now \div TickMs),
                      !.joined = TRUE,
                      !.checkTimerDue = NextDue(TickMs, now)]
    /\ mounts = 1
    /\ notifications = 1
    /\ NoSessionActivity
    /\ session_check_responses = {}
    /\ conflicts = {}
    /\ writes = {Write("session_checks", 1, LecturerUser, TRUE)}
    /\ triggers = {}
    /\ responseEvents = {}
    /\ NoScans
    /\ NoFeed
    /\ checkEvents = [d \in StudentClients |->
                         IF d = "d1" THEN {} ELSE {CheckRow(1)}]
    /\ students = [d \in StudentClients |->
          IF d = "d1" THEN handleNewCheck(InitialStudent("s1"), CheckRow(1))
                      ELSE InitialStudent("s2")]

\* The instants at which a timer that is still registered is due: the
\* lecturer's check interval, a student's countdown interval, and the
\* timeouts of the delayed reset.
TimerDues ==
    (IF lecturer.mounted /\ lecturer.activeCheckId # 0
        THEN {lecturer.checkTimerDue} ELSE {})
    \cup UNION {(IF /\ students[d].view = "live"
                    /\ students[d].checkStatus = "prompt"
                    /\ students[d].activeCheck # Null
                    THEN {students[d].timerDue} ELSE {})
                \cup students[d].resets : d \in StudentClients}

\* Wall-clock time passes until the next timer is due.
AdvanceTimeToNextTimer ==
    /\ now < HorizonSteps * ClockStepMs + ResetDelayMs
    /\ \E due \in TimerDues :
          /\ due > now
          /\ \A other \in TimerDues : other > now => due <= other
          /\ now' = due
    /\ UNCHANGED <<sessionStore, lecturer, sessionVars, checkStore, checkVars,
                   scanVars, feedVars>>

NextLeave ==
    \/ \E d \in StudentClients :
          \/ DeliverCheck(d)
          \/ LiveLeave(d)
    \/ \E d \in {"d1"} :
          \/ students[d].view = "live" /\ ConfirmPresenceCounted(d)
          \/ InsertResponse(d)
          \/ StudentTick(d)
          \/ ResetFire(d)
          \/ EmitSentiment(d)
    \/ DeliverResponse
    \/ DeliverSentiment
    \/ CheckTick
    \/ LecturerLeave
    \/ AdvanceTimeToNextTimer

SpecLeave == InitLeave /\ [][NextLeave]_vars

----------------------------------------------------------------------------
(* Properties of the session lifecycle *)

\* C4: ending a session is idempotent: an endSession() invoked on a session
\* that was already Ended changes neither the session row nor the activity
\* log (no further 'session_ended' entry).
C4_EndSessionIdempotent ==
    [][\A c \in BagToSet(endCalls) :
          (c.onEnded /\ CopiesIn(c, endCalls') < CopiesIn(c, endCalls))
              => /\ attendance_sessions' = attendance_sessions
                 /\ activity_logs' = activity_logs]_vars

\* C5: at every tick of the countdown timeLeft is
\* max(0, floor((end_time - now) / 1000)): never negative, within one second
\* below the true remaining time, 0 at any tick at or after end_time, and not
\* larger than at the previous tick of the same view.
C5_SecondsRemaining ==
    [][SessionTick =>
          LET left == attendance_sessions.end_time - now
              t == lecturer'.timeLeft
          IN  /\ t >= 0
              /\ (left <= 0 => t = 0)
              /\ (left > 0 => t * 1000 <= left /\ left < (t + 1) * 1000)
              /\ (lecturer.ticked => t <= lecturer.timeLeft)]_vars

\* C5 witness: the countdown has ticked at or after end_time (its next
\* callback is due a full period after end_time or later) and shows 0.
C5_Witness ==
    /\ lecturer.ticked
    /\ lecturer.timeLeft = 0
    /\ now >= attendance_sessions.end_time
    /\ lecturer.timerDue >= attendance_sessions.end_time + TickMs

\* C8: once the stored active flag is false it stays false.
C8_NeverReactivated ==
    [][~attendance_sessions.is_active => ~attendance_sessions'.is_active]_vars

\* C8 witness: an endSession() invoked on the ended session has committed
\* its update, and the flag is still false.
C8_Witness ==
    /\ ~attendance_sessions.is_active
    /\ \E c \in BagToSet(endCalls) : c.onEnded /\ c.stage = "log"

\* C9: the stored active flag is true iff the current time is before the
\* stored end time and no explicit termination has occurred.
C9_ActiveIffInWindow ==
    attendance_sessions.is_active
        <=> (now < attendance_sessions.end_time /\ ~terminated)

----------------------------------------------------------------------------
(* Properties of the presence-check protocol *)

\* C2: a response submitted after its check's expiry is rejected: no
\* session_check_responses row has responded_at later than the expires_at of
\* its check.
C2_NoLateResponse ==
    \A r \in session_check_responses :
        r.responded_at <= CheckRow(r.check_id).expires_at

\* C3: at most one session_check_responses row exists per (check, student).
C3_OneResponsePerStudent ==
    \A r1, r2 \in session_check_responses :
        (r1.check_id = r2.check_id /\ r1.student_id = r2.student_id) => r1 = r2

\* C3 witness: a second insert for a (check, student) that already has a row
\* was refused by the store.
C3_Witness ==
    \E k \in conflicts :
        \E r \in session_check_responses :
            r.check_id = k[1] /\ r.student_id = k[2]

\* C7: while a check is active on the lecturer's view the tally moves only by
\* +1, and only for a response of that check that was accepted in time; a
\* response after the check's expiry leaves the tally unchanged.
C7_TallyCountsTimelyResponses ==
    [][(/\ lecturer.activeCheckId # 0
        /\ lecturer'.activeCheckId = lecturer.activeCheckId
        /\ lecturer'.verifiedCount # lecturer.verifiedCount)
        => /\ lecturer'.verifiedCount = lecturer.verifiedCount + 1
           /\ \E e \in responseEvents \ responseEvents' :
                 /\ e.check_id = lecturer.activeCheckId
                 /\ e.responded_at <= CheckRow(e.check_id).expires_at]_vars

----------------------------------------------------------------------------
(* Properties of the scan accept path *)

Signals(d, what) == {i \in 1..Len(outcomes[d]) : outcomes[d][i].signal = what}

\* C1: at most one AttendanceRecord exists per (session, student), whatever
\* the interleaving of submissions; the devices of one student are told
\* Accepted once at most, and exactly as often as the student has a record.
C1_OneRecordPerStudent ==
    /\ \A r1, r2 \in attendance_records :
          r1.student_id = r2.student_id => r1 = r2
    /\ \A u \in StudentUsers :
          LET mine == {d \in StudentClients : students[d].user = u}
              told == {<<d, i>> \in StudentClients \X (1..MaxScans + 1) :
                          d \in mine /\ i \in Signals(d, "Accepted")}
          IN  Cardinality(told) =
                 Cardinality({r \in attendance_records : r.student_id = u})

\* C1 witness: of two concurrent submissions of one student one was accepted,
\* and the other, past the duplicate pre-check, was refused by the store with
\* DuplicateScan.
C1_Witness ==
    \E d1, d2 \in StudentClients :
        /\ d1 # d2
        /\ students[d1].user = students[d2].user
        /\ Signals(d1, "Accepted") # {}
        /\ \E i \in Signals(d2, "DuplicateScan") : outcomes[d2][i].by = "store"

InRange(location) ==
    calculateDistance(location, ClassroomOf(attendance_sessions))
        <= ScanRadius(attendance_sessions)

\* C6: with geofencing enabled and radius r, OutOfRange is signalled only for
\* a distance d > r and carries d, no record lies farther than r from the
\* classroom, and a submission that reaches the write has d <= r.
C6_GeofenceDecides ==
    attendance_sessions.location_required =>
       /\ \A r \in attendance_records : InRange(r.location)
       /\ \A d \in StudentClients :
             /\ \A i \in Signals(d, "OutOfRange") :
                   /\ outcomes[d][i].distance > ScanRadius(attendance_sessions)
                   /\ outcomes[d][i].distance \in ScanOffsets
             /\ (scans[d] # Null /\ scans[d][1].stage = "write")
                    => InRange(scans[d][1].location)

\* C6 witness: a student refused with OutOfRange at 150 m resubmitted from
\* the boundary (d = r) and was accepted.
C6_Witness ==
    /\ attendance_sessions.location_required
    /\ \E d \in StudentClients :
          /\ Len(outcomes[d]) = 2
          /\ outcomes[d][1].signal = "OutOfRange"
          /\ outcomes[d][1].distance = 150
          /\ outcomes[d][2].signal = "Accepted"
          /\ \E r \in attendance_records :
                /\ r.student_id = students[d].user
                /\ calculateDistance(r.location, ClassroomOf(attendance_sessions))
                      = ScanRadius(attendance_sessions)

----------------------------------------------------------------------------
(* Properties of the live views *)

\* C10: folding insert events is idempotent against duplicate delivery: a
\* handler run on a record identity the view has already folded leaves the
\* attendance feed (and with it the attendee count), the sentiment tally and
\* the check-response tally as they were.
C10_DuplicateDeliveryIdempotent ==
    [][\A k \in BagToSet(folds) :
          CopiesIn(k, folds') > CopiesIn(k, folds)
              => /\ lecturer'.attendees = lecturer.attendees
                 /\ lecturer'.sentiments = lecturer.sentiments
                 /\ lecturer'.verifiedCount = lecturer.verifiedCount]_vars

\* C11: the lecturer's live attendance feed is ordered by scan time, most
\* recent scan first, whatever the order in which the insert events arrived.
C11_FeedNewestFirst ==
    \A i, j \in 1..Len(lecturer.attendees) :
        i < j => lecturer.attendees[i].scanned_at
                    >= lecturer.attendees[j].scanned_at

\* Nothing is on its way to the lecturer's view.
FeedQuiet ==
    /\ attendanceEvents = {}
    /\ sentimentEvents = {}
    /\ responseEvents = {}
    /\ profileLookups = EmptyBag

\* The lecturer's feed and tallies show exactly what the store holds.
ViewEqualsStore ==
    /\ {lecturer.attendees[i] : i \in 1..Len(lecturer.attendees)}
          = {Attendee(r) : r \in attendance_records}
    /\ Len(lecturer.attendees) = Cardinality(attendance_records)
    /\ \A k \in SentimentKinds :
          lecturer.sentiments[k]
             = Cardinality({r \in session_sentiments : r.sentiment = k})
    /\ lecturer.verifiedCount
          = Cardinality({r \in session_check_responses :
                            r.check_id = lecturer.activeCheckId})

\* C12: once a dropped subscription is reconnected (and nothing is in flight
\* any more) the lecturer's feed and tallies equal the store's state, though
\* the inserts committed during the outage were never delivered as events.
C12_ResyncAfterReconnect ==
    (lecturer.online /\ lecturer.outages > 0 /\ FeedQuiet) => ViewEqualsStore

----------------------------------------------------------------------------
(* Properties of the view's mount *)

\* C13: the local notification is requested once per session activation: no
\* sequence of mounts, remounts and re-fetches of the ActiveSession view
\* requests it a second time.
C13_NotifiedOnce == notifications <= 1

----------------------------------------------------------------------------
(* Properties of the store's access rules *)

\* C14: every response row was written by the user it names and every check
\* by the lecturer of its session: an insert is accepted only under these
\* conditions, and every stored row comes from an accepted insert.
C14_RowsBelongToWriters ==
    /\ \A w \in writes :
          w.ok => /\ w.table = "session_check_responses" => w.key[2] = w.uid
                  /\ w.table = "session_checks"
                        => w.uid = attendance_sessions.lecturer_id
    /\ \A r \in session_check_responses :
          \E w \in writes : /\ w.ok /\ w.table = "session_check_responses"
                            /\ w.key = <<r.check_id, r.student_id>>
    /\ \A c \in session_checks :
          \E w \in writes : w.ok /\ w.table = "session_checks" /\ w.key = c.id

\* C14 witness: the store has refused a check of a user who is not the
\* session's lecturer and a response naming another student than its
\* sender, and has accepted a check and a response.
C14_Witness ==
    /\ \E w \in writes : /\ ~w.ok /\ w.table = "session_checks"
                         /\ w.uid # attendance_sessions.lecturer_id
    /\ \E w \in writes : /\ ~w.ok /\ w.table = "session_check_responses"
                         /\ w.uid # w.key[2]
                         /\ ~\E r \in session_check_responses :
                                <<r.check_id, r.student_id>> = w.key
    /\ session_checks # {}
    /\ session_check_responses # {}

----------------------------------------------------------------------------
(* Properties of the order of the scan's checks *)

\* C15: the accept path decides in the order liveness, duplicate, geofence,
\* accept: whenever a scan is answered, a session that is not open answers
\* SessionClosed whatever the records and the location; an open session
\* with a record of the student answers DuplicateScan whatever the
\* location; an open session without one answers OutOfRange to a location
\* outside the geofence; a record is created only with the answer Accepted,
\* which is given only when all three checks pass.
C15_ChecksInOrder ==
    [][/\ \A d \in StudentClients :
             Len(outcomes'[d]) = Len(outcomes[d]) + 1 =>
                LET o == outcomes'[d][Len(outcomes'[d])]
                    student == students[d].user
                    created == attendance_records' \ attendance_records
                IN  /\ ~SessionOpen => o.signal = "SessionClosed"
                    /\ (SessionOpen /\ HasRecord(student))
                          => o.signal = "DuplicateScan"
                    /\ (SessionOpen /\ ~HasRecord(student)
                           /\ OutOfRange(o.location))
                          => o.signal = "OutOfRange"
                    /\ o.signal # "Accepted" => created = {}
                    /\ o.signal = "Accepted"
                          => /\ SessionOpen
                             /\ ~HasRecord(student)
                             /\ ~OutOfRange(o.location)
                             /\ Cardinality(created) = 1
                             /\ \A r \in created : r.student_id = student
       /\ attendance_records' # attendance_records
             => \E d \in StudentClients :
                   /\ Len(outcomes'[d]) = Len(outcomes[d]) + 1
                   /\ outcomes'[d][Len(outcomes'[d])].signal = "Accepted"]_vars

\* C15 witness: on one device a scan was accepted, a second one from
\* outside the geofence was answered DuplicateScan by the guard, and a
\* third one from outside the geofence, after the session's window, was
\* answered SessionClosed; the student has one record.
C15_Witness ==
    \E d \in StudentClients :
       /\ Len(outcomes[d]) = 3
       /\ outcomes[d][1].signal = "Accepted"
       /\ outcomes[d][2].signal = "DuplicateScan"
       /\ outcomes[d][2].by = "guard"
       /\ OutOfRange(outcomes[d][2].location)
       /\ outcomes[d][3].signal = "SessionClosed"
       /\ OutOfRange(outcomes[d][3].location)
       /\ Cardinality({r \in attendance_records :
                          r.student_id = students[d].user}) = 1

----------------------------------------------------------------------------
(* Properties of a student's checkStatus *)

\* C16: checkStatus changes only from idle to prompt when a check is
\* observed, from prompt to verifying, from verifying to verified, from
\* verifying to prompt when a confirmPresence call ends, from prompt to idle
\* when the countdown finds no time left, and from verified to idle when the
\* reset is due.
C16_StatusTransitions ==
    [][\A d \in StudentClients :
          LET st == students[d]
              from == st.checkStatus
              to == students'[d].checkStatus
          IN  from # to =>
                 \/ /\ from = "idle" /\ to = "prompt"
                    /\ checkEvents'[d] # checkEvents[d]
                 \/ from = "prompt" /\ to = "verifying"
                 \/ from = "verifying" /\ to = "verified"
                 \/ /\ from = "verifying" /\ to = "prompt"
                    /\ students'[d].calls # st.calls
                 \/ /\ from = "prompt" /\ to = "idle"
                    /\ Remaining(st.activeCheck[1].expires_at, now) = 0
                 \/ /\ from = "verified" /\ to = "idle"
                    /\ \E due \in st.resets : now >= due]_vars

----------------------------------------------------------------------------
(* Properties of the expiry clock *)

\* C17: the countdown invokes endSession once when the remaining time reaches
\* zero: at no time are two endSession() invocations of the countdown under
\* way.
C17_ExpiryEndsOnce ==
    BagCardinality([c \in {x \in BagToSet(endCalls) : ~x.explicit} |->
                       CopiesIn(c, endCalls)]) <= 1

----------------------------------------------------------------------------
(* Properties of the end of the session on the students' devices *)

\* A student client that is observing the session at the moment the update
\* commits: its channel is joined and the UPDATE has been published to it.
EndPublishedTo(d) ==
    /\ students[d].subscribed
    /\ \E e \in sessionEvents[d] : ~e.new.is_active

\* C18: whenever the session's flag becomes false while a student client is
\* subscribed, that client eventually leaves LiveClass with the outcome
\* 'Class Ended' of the UPDATE handler (or 'Session Ended' of a fetch that
\* was still under way), unless the student has left the page before; and a
\* client showing the session leaves it as ended only through the handler.
C18_EndReachesObservers ==
    /\ \A d \in StudentClients :
          EndPublishedTo(d) ~> students[d].view \in {"ended", "left"}
    /\ [][\A d \in StudentClients :
             (students[d].view = "live" /\ students'[d].view = "ended")
                => /\ EndPublishedTo(d)
                   /\ students'[d].outcome = "Class Ended"]_vars

\* C18 witness: a client that had loaded the session has left LiveClass with
\* 'Class Ended' after the flag was cleared in the store.
C18_Witness ==
    \E d \in StudentClients :
       /\ students[d].view = "ended"
       /\ students[d].outcome = "Class Ended"
       /\ students[d].session # Null
       /\ ~attendance_sessions.is_active

----------------------------------------------------------------------------
(* Properties of the expiry seen by a student client *)

\* C19: a student client observes the expiry by itself: more than one
\* period of an interval check after the stored end_time, no LiveClass view
\* still shows the session as running.
C19_StudentObservesExpiry ==
    \A d \in StudentClients :
       (students[d].view = "live" /\ students[d].subscribed)
          => now <= students[d].session[1].end_time + TickMs

----------------------------------------------------------------------------
(* Properties of a check that runs out on a student's device *)

\* The window of the check shown by device d has lapsed.
WindowLapsed(d) ==
    /\ students[d].activeCheck # Null
    /\ now >= students[d].activeCheck[1].expires_at

----------------------------------------------------------------------------
(* Properties of the location re-check of confirmPresence *)

\* The calls of confirmPresence on device d that wait for the location
Locating(st) == {c \in st.calls : c.stage = "locating"}

C22_WidenedTolerance ==
    [][\A d \in StudentClients, off \in StudentOffsets :
          (/\ LocationResolvedAt(d, off)
           /\ students[d].session[1].geofence_radius_meters # 0)
             => ((Cardinality(Locating(students'[d]))
                     < Cardinality(Locating(students[d]))
                  /\ Cardinality(students'[d].calls)
                        = Cardinality(students[d].calls))
                 <=> 2 * off <= 3 * students[d].session[1].geofence_radius_meters)]_vars

----------------------------------------------------------------------------
(* Properties of the live views while the page loads *)

\* fetchSession and fetchAttendees of the mounted view have completed.
InitialFetchDone ==
    lecturer.mounted /\ lecturer.pc = "idle" /\ ~lecturer.loading

\* C23: once the initial fetchAttendees has completed and every published
\* attendance event has been handled, the feed holds exactly one entry per
\* attendance record and the attendee count is the number of records.
C23_FeedConverges ==
    (InitialFetchDone /\ attendanceEvents = {} /\ profileLookups = EmptyBag)
       => /\ {lecturer.attendees[i] : i \in 1..Len(lecturer.attendees)}
                = {Attendee(r) : r \in attendance_records}
          /\ Len(lecturer.attendees) = Cardinality(attendance_records)

\* fetchSentiments has set its counts (or was never going to) on the open view.
SentimentsFetched == lecturer.mounted /\ lecturer.sentPc = "idle"

\* The number of committed session_sentiments rows of kind k.
StoredSentiments(k) == Cardinality({r \in session_sentiments : r.sentiment = k})

\* C24: once the initial fetchSentiments has completed and every committed
\* sentiment event has been delivered, the local tally of each kind equals
\* the number of stored SentimentEvents of that kind, whatever the order of
\* the fetch and the events.
C24_TallyConverges ==
    (SentimentsFetched /\ sentimentEvents = {})
        => \A k \in SentimentKinds : lecturer.sentiments[k] = StoredSentiments(k)

----------------------------------------------------------------------------
(* Properties of the views' timers and subscriptions when a view goes away *)

\* LiveClass is on screen on device d.
LiveOpen(d) == students[d].view \in {"loading", "live"}

\* C25: no timer started by a view is still pending once the view has been
\* torn down: the lecturer's session and check intervals, the student's
\* countdown interval and the timeout of the student's delayed reset are all
\* cleared by then.
C25_TimersCleared ==
    /\ ~lecturer.mounted =>
          lecturer.timerDue = 0 /\ lecturer.checkTimerDue = 0
    /\ \A d \in StudentClients : ~LiveOpen(d) => students[d].resets = {}

\* C26: every subscription is scoped to one entity and released on teardown:
\* the events on their way to the lecturer's responses channel are those of
\* the check it counts; once ActiveSession is torn down nothing is on its
\* way to it, once the check window has lapsed (activeCheckId reset) the
\* responses channel is closed and nothing is on its way to it, and once
\* LiveClass is torn down its session and checks channels are closed and
\* nothing is on its way to them, so no later event changes the view.
C26_SubscriptionsReleased ==
    /\ \A e \in responseEvents : e.check_id = lecturer.activeCheckId
    /\ ~lecturer.mounted =>
          /\ ~lecturer.joined
          /\ responseEvents = {}
          /\ attendanceEvents = {}
          /\ sentimentEvents = {}
    /\ lecturer.activeCheckId = 0 =>
          ~lecturer.joined /\ responseEvents = {}
    /\ \A d \in StudentClients :
          ~LiveOpen(d) =>
             /\ ~students[d].subscribed
             /\ sessionEvents[d] = {}
             /\ checkEvents[d] = {}

\* The check window has lapsed on the lecturer's open view, a response was
\* committed that the view did not count, and a student has left LiveClass
\* before the check's event reached it.
C26_Witness ==
    /\ lecturer.mounted
    /\ lecturer.activeCheckId = 0
    /\ lecturer.verifiedCount = 0
    /\ session_check_responses # {}
    /\ students["d2"].view = "left"
    /\ students["d2"].activeCheck = Null

----------------------------------------------------------------------------
(* Properties of the countdowns and of the check's window *)

\* The expiry a student's view holds: that of the check it shows after the
\* step, or of the one it showed before it.
ShownExpiry(before, after) ==
    IF after.activeCheck # Null THEN after.activeCheck[1].expires_at
                                ELSE before.activeCheck[1].expires_at

\* C27: every countdown is recomputed from absolute timestamps: whenever the
\* lecturer's check interval changes checkTimeLeft, the new value is
\* max(0, floor((expiry of the check - now) / 1000)), also when ticks were
\* delayed or skipped, and whenever a student's timeLeft changes it is the
\* same expression over the expires_at of the check the student is shown.
C27_CountdownsFromClock ==
    [][/\ (/\ lecturer.activeCheckId # 0
           /\ lecturer'.checkTimeLeft # lecturer.checkTimeLeft)
          => \E c \in session_checks :
                /\ c.id = lecturer.activeCheckId
                /\ lecturer'.checkTimeLeft = Remaining(c.expires_at, now)
       /\ \A d \in StudentClients :
             (/\ students'[d].timeLeft # students[d].timeLeft
              /\ (students'[d].activeCheck # Null
                     \/ students[d].activeCheck # Null))
               => students'[d].timeLeft =
                     Remaining(ShownExpiry(students[d], students'[d]), now)
      ]_vars

\* C28: every SessionCheck created by triggerPresenceCheck expires exactly
\* the fixed window after its stored creation time:
\* expires_at = created_at + 60 s.
C28_WindowFromCreation ==
    \A c \in session_checks :
        c.expires_at = c.created_at + durationSeconds * 1000

----------------------------------------------------------------------------
(* Frame of endSession *)

----------------------------------------------------------------------------
(* Properties of a student's prompt when checks follow one another *)

\* C30: a prompt is not lost to work left over from an earlier check: a
\* student client that prompts for a check keeps prompting for it until the
\* student responds to that check (confirmPresence starts for it), its
\* window has lapsed at a tick, or a newer check is observed; neither the
\* delayed reset of an earlier check nor the completion of an earlier
\* check's confirmPresence dismisses the prompt or shows it as verified.
C30_PromptNotLost ==
    [][\A d \in StudentClients :
          LET st == students[d]
              after == students'[d]
          IN  (/\ st.checkStatus = "prompt"
               /\ st.activeCheck # Null
               /\ (after.checkStatus # "prompt"
                      \/ after.activeCheck # st.activeCheck))
                => \/ /\ after.checkStatus = "verifying"
                      /\ after.activeCheck = st.activeCheck
                      /\ \E c \in after.calls \ st.calls :
                            c.check = st.activeCheck[1].id
                   \/ /\ after.checkStatus = "idle"
                      /\ Remaining(st.activeCheck[1].expires_at, now) = 0
                   \/ /\ after.checkStatus = "prompt"
                      /\ after.activeCheck # Null
                      /\ checkEvents'[d] # checkEvents[d]]_vars

\* C31: a student client that is not idle holds a check: checkStatus in
\* {prompt, verifying, verified} implies activeCheck is not null, so a
\* visible prompt has a check that confirmPresence can answer and a
\* countdown that can expire it.
C31_StatusHoldsCheck ==
    \A d \in StudentClients :
        students[d].checkStatus \in {"prompt", "verifying", "verified"}
            => students[d].activeCheck # Null

----------------------------------------------------------------------------
(* Properties of the expiry when the store fails *)

\* C32: if the ActiveSession view is open with the session loaded past the
\* session's end time, and the store does not reject the update for ever,
\* the session's active flag eventually becomes false: a failed attempt is
\* followed by another one on a later tick.
C32_ExpiryRetried ==
    (/\ lecturer.mounted
     /\ lecturer.session # Null
     /\ now >= attendance_sessions.end_time)
        ~> ~attendance_sessions.is_active

\* An attempt at expiry has failed and the next one is due: the view has
\* shown 0 at a tick past the end time (which called endSession), no request
\* is under way, the session is still active and the interval is due again.
C32_Witness ==
    /\ lecturer.mounted
    /\ lecturer.session # Null
    /\ lecturer.ticked
    /\ lecturer.timeLeft = 0
    /\ endCalls = EmptyBag
    /\ attendance_sessions.is_active
    /\ now > attendance_sessions.end_time
    /\ lecturer.timerDue = now

----------------------------------------------------------------------------
(* Properties of the lecturer's Presence Verification card *)

\* C33: on the lecturer's view activeCheckId is set only while
\* 1 <= checkTimeLeft <= 60; when the countdown reaches 0 the check is
\* cleared in the same step; a check starts only when no check is active on
\* the view (at most one at a time), and it starts with verifiedCount = 0.
C33_OneCheckOnTheCard ==
    [][/\ lecturer'.activeCheckId # 0
          => /\ lecturer'.checkTimeLeft >= 1
             /\ lecturer'.checkTimeLeft <= durationSeconds
       /\ (/\ lecturer'.mounted
           /\ lecturer.checkTimeLeft # 0
           /\ lecturer'.checkTimeLeft = 0)
          => lecturer'.activeCheckId = 0
       /\ (/\ lecturer'.activeCheckId # 0
           /\ lecturer'.activeCheckId # lecturer.activeCheckId)
          => /\ lecturer.activeCheckId = 0
             /\ lecturer'.verifiedCount = 0
      ]_vars

----------------------------------------------------------------------------
(* Properties of failed store writes *)

\* An update of endSession ends without having been committed.
EndUpdateFails ==
    /\ BagCardinality(endCalls') < BagCardinality(endCalls)
    /\ \E c \in BagToSet(endCalls) :
          c.stage = "update" /\ CopiesIn(c, endCalls') < CopiesIn(c, endCalls)

\* An insert of triggerPresenceCheck ends without a row.
TriggerInsertFails ==
    /\ \E t \in triggers : t.stage = "insert" /\ t \notin triggers'
    /\ session_checks' = session_checks

\* An insert of confirmPresence on device d ends without a row.
ResponseInsertFails(d) ==
    /\ \E c \in students[d].calls :
          c.stage = "inserting" /\ c \notin students'[d].calls
    /\ session_check_responses' = session_check_responses

\* C34: a failed store write leaves local state as it was: after a failed
\* update of endSession the lecturer's view is as before, nothing is logged
\* and the session row is unchanged; after a failed insert of
\* triggerPresenceCheck the view (activeCheckId, checkTimeLeft,
\* verifiedCount, the countdown) is as before; after a failed insert of
\* confirmPresence the student is back in prompt with the check held before.
C34_FailedWriteKeepsState ==
    [][/\ EndUpdateFails
          => /\ lecturer' = lecturer
             /\ activity_logs' = activity_logs
             /\ attendance_sessions' = attendance_sessions
       /\ TriggerInsertFails => lecturer' = lecturer
       /\ \A d \in StudentClients :
             ResponseInsertFails(d)
                => /\ students'[d].checkStatus = "prompt"
                   /\ students'[d].activeCheck = students[d].activeCheck
                   /\ students'[d].resets = students[d].resets
      ]_vars

\* Both presses of a student have ended in a failed insert (prompt again, the
\* same check, no response stored), and an "End Session" press has failed:
\* the view is open, the session active and nothing logged.
C34_Witness ==
    /\ presses = MaxConfirms
    /\ \E d \in StudentClients :
          /\ students[d].checkStatus = "prompt"
          /\ students[d].activeCheck # Null
          /\ students[d].calls = {}
    /\ \A d \in StudentClients : students[d].calls = {}
    /\ session_check_responses = {}
    /\ clicks >= 1
    /\ endCalls = EmptyBag
    /\ lecturer.mounted
    /\ attendance_sessions.is_active
    /\ activity_logs = 0

====
